---- MODULE Spec2Model ----
(***************************************************************************)
(* A model of the stock-signal engine of StockSphere                       *)
(* (src/frontend/src/app/api/stock-predictions/route.ts): the sentiment    *)
(* analyzer, the decision fuser, the portfolio loop and the GET handler.   *)
(*                                                                         *)
(* JavaScript numbers are IEEE-754 binary64 values.  The engine rounds a   *)
(* confidence with Math.round(confidence * 100) / 100, so the low bits of  *)
(* its arithmetic decide the result; numbers are therefore modelled as     *)
(* binary64 values (sign, integer mantissa, binary exponent) with          *)
(* round-to-nearest-even after every operation.  Mantissas exceed TLC's    *)
(* 32-bit integers and are kept as sequences of 14-bit limbs.              *)
(***************************************************************************)
EXTENDS Integers, Sequences, FiniteSets, TLC

(***************************************************************************)
(* Natural numbers of any size: little-endian sequences of limbs, without  *)
(* leading zero limbs (<<>> is 0).                                         *)
(***************************************************************************)
LimbBits == 7 * 2

LimbBase == 2 ^ LimbBits

MinOf(i, j) == IF i <= j THEN i ELSE j

MaxOf(i, j) == IF i >= j THEN i ELSE j

\* Limb i of a (limb 1 is the lowest); 0 above the top limb.
Limb(a, i) == IF i >= 1 /\ i <= Len(a) THEN a[i] ELSE 0

\* The place of the highest limb of a that is not 0, or 0.
BigTop(a) ==
  IF \A i \in 1..Len(a) : a[i] = 0 THEN 0
  ELSE CHOOSE i \in 1..Len(a) : a[i] # 0 /\ \A j \in (i + 1)..Len(a) : a[j] = 0

\* a without its leading zero limbs.
BigNorm(a) == SubSeq(a, 1, BigTop(a))

\* A number below 2^31.
BigFromNat(n) ==
  BigNorm(<<n % LimbBase, (n \div LimbBase) % LimbBase, n \div (LimbBase * LimbBase)>>)

\* The number of the column sums s, each at most 2 * LimbBase - 2: a carry
\* enters column i when a lower column overflows and every column between
\* them is full.
CarryInto(s, i) ==
  \E j \in 1..(i - 1) :
     s[j] >= LimbBase /\ \A k \in (j + 1)..(i - 1) : s[k] = LimbBase - 1

BigCarry(s) ==
  BigNorm([i \in 1..Len(s) |-> (s[i] + (IF CarryInto(s, i) THEN 1 ELSE 0)) % LimbBase])

BigAdd(a, b) ==
  IF a = <<>> THEN b
  ELSE IF b = <<>> THEN a
  ELSE BigCarry([i \in 1..(MaxOf(Len(a), Len(b)) + 1) |-> Limb(a, i) + Limb(b, i)])

\* The number of the column differences d of a - b for a >= b: a borrow enters
\* column i when a lower column is negative and every column between is 0.
BorrowInto(d, i) ==
  \E j \in 1..(i - 1) : d[j] < 0 /\ \A k \in (j + 1)..(i - 1) : d[k] = 0

BigBorrow(d) ==
  BigNorm([i \in 1..Len(d) |-> (d[i] - (IF BorrowInto(d, i) THEN 1 ELSE 0)) % LimbBase])

BigSub(a, b) ==
  IF a = b THEN <<>>
  ELSE IF b = <<>> THEN a
  ELSE BigBorrow([i \in 1..Len(a) |-> a[i] - Limb(b, i)])

\* -1, 0 or 1 as a < b, a = b or a > b: by length, then by the highest limb
\* in which they differ.
BigCmpAt(a, b, i) == IF a[i] < b[i] THEN -1 ELSE 1

BigCmp(a, b) ==
  IF Len(a) # Len(b) THEN (IF Len(a) < Len(b) THEN -1 ELSE 1)
  ELSE IF \A i \in 1..Len(a) : a[i] = b[i] THEN 0
  ELSE BigCmpAt(a, b, CHOOSE i \in 1..Len(a) :
                        a[i] # b[i] /\ \A j \in (i + 1)..Len(a) : a[j] = b[j])

\* a * LimbBase^n
BigShiftLimbs(a, n) ==
  IF a = <<>> \/ n = 0 THEN a
  ELSE BigNorm([i \in 1..(n + Len(a)) |-> IF i <= n THEN 0 ELSE a[i - n]])

\* a * k for k of at most 17 bits: the low and the high halves of the limb
\* products, added.
BigMulSmall(a, k) ==
  IF a = <<>> \/ k = 0 THEN <<>>
  ELSE IF k = 1 THEN a
  ELSE BigAdd(BigNorm([i \in 1..Len(a) |-> (a[i] * k) % LimbBase]),
              BigNorm([i \in 1..(Len(a) + 1) |-> (Limb(a, i - 1) * k) \div LimbBase]))

\* a * b, the limbs of b taken from the top: acc is a times the limbs of b
\* above the i-th.
RECURSIVE BigMulFrom(_, _, _, _)
BigMulFrom(a, b, i, acc) ==
  IF i = 0 THEN acc
  ELSE IF acc = <<>> THEN BigMulFrom(a, b, i - 1, BigMulSmall(a, b[i]))
  ELSE BigMulFrom(a, b, i - 1, BigAdd(BigMulSmall(a, b[i]), <<0>> \o acc))

BigMul(a, b) ==
  IF a = <<>> \/ b = <<>> THEN <<>> ELSE BigMulFrom(a, b, Len(b), <<>>)

\* Quotient and remainder of a by a single non-zero limb k, the limbs of a taken
\* from the top: q and r are the quotient and the remainder of the limbs of a
\* above the i-th, and a quotient gets no leading zero limb.
RECURSIVE BigDivSmallR(_, _, _, _, _)
BigDivSmallR(a, k, i, q, r) ==
  IF i = 0 THEN [q |-> q, r |-> r]
  ELSE IF q = <<>> /\ r * LimbBase + a[i] < k
  THEN BigDivSmallR(a, k, i - 1, <<>>, r * LimbBase + a[i])
  ELSE BigDivSmallR(a, k, i - 1, <<(r * LimbBase + a[i]) \div k>> \o q,
                    (r * LimbBase + a[i]) % k)

BigDivSmall(a, k) == BigDivSmallR(a, k, Len(a), <<>>, 0)

\* The number of bits of n < 2^(LimbBits + 1).
BitLenSmall(n) ==
  CHOOSE k \in 0..(LimbBits + 1) : n < 2 ^ k /\ (k = 0 \/ n >= 2 ^ (k - 1))

BigBitLen(a) ==
  IF a = <<>> THEN 0 ELSE LimbBits * (Len(a) - 1) + BitLenSmall(a[Len(a)])

\* a * 2^n
BigShl(a, n) ==
  BigMulSmall(BigShiftLimbs(a, n \div LimbBits), 2 ^ (n % LimbBits))

\* floor(a / 2^n): limb i of the result is made of the high bits of limb i + w
\* and the low bits of limb i + w + 1 of a, for n = w * LimbBits + b.
BigShrLimb(a, i, b) ==
  Limb(a, i) \div 2 ^ b + (Limb(a, i + 1) % 2 ^ b) * 2 ^ (LimbBits - b)

BigShr(a, n) ==
  IF n \div LimbBits >= Len(a) THEN <<>>
  ELSE BigNorm([i \in 1..(Len(a) - n \div LimbBits) |->
                  BigShrLimb(a, i + n \div LimbBits, n % LimbBits)])

BigIsOdd(a) == a # <<>> /\ Head(a) % 2 = 1

BigOne == <<1>>

\* The number of low zero bits of a limb n > 0, and of a > 0.
ZeroBits(n) == CHOOSE k \in 0..LimbBits : n % 2 ^ k = 0 /\ n % 2 ^ (k + 1) # 0

BigLow(a) == CHOOSE i \in 1..Len(a) : a[i] # 0 /\ \A j \in 1..(i - 1) : a[j] = 0

BigZeroBits(a) == LimbBits * (BigLow(a) - 1) + ZeroBits(a[BigLow(a)])

(***************************************************************************)
(* binary64 numbers.  A finite number is sign * mantissa * 2^exponent with *)
(* the mantissa odd (or the number 0), which makes equal numbers equal     *)
(* records; NaN is a record of its own.  Infinities, subnormals and -0 do  *)
(* not arise from the engine's arithmetic (no overflow, and only 0 is ever *)
(* divided by 0), so an operation that would produce one has no value here.*)
(***************************************************************************)
Precision == 52 + 1

NaN == [k |-> "nan", s |-> 0, m |-> <<>>, e |-> 0]

Zero == [k |-> "fin", s |-> 0, m |-> <<>>, e |-> 0]

IsNaN(x) == x.k = "nan"

\* The record of sign * m * 2^e, its mantissa made odd.
FShifted(s, m, e, z) == [k |-> "fin", s |-> s, m |-> BigShr(m, z), e |-> e + z]

FCanon(s, m, e) ==
  IF m = <<>> \/ s = 0 THEN Zero ELSE FShifted(s, m, e, BigZeroBits(m))

\* sign * m * 2^e rounded to 53 significant bits, ties to the even mantissa.
\* q is m with its sh low bits dropped; c compares the dropped bits with half
\* of the last kept place.
FRoundUp(q, c) == c > 0 \/ (c = 0 /\ BigIsOdd(q))

FRoundKept(s, m, e, sh, q) ==
  FCanon(s,
         IF FRoundUp(q, BigCmp(BigSub(m, BigShl(q, sh)), BigShl(BigOne, sh - 1)))
         THEN BigAdd(q, BigOne) ELSE q,
         e + sh)

FRoundBy(s, m, e, sh) == FRoundKept(s, m, e, sh, BigShr(m, sh))

FRound(s, m, e) ==
  IF BigBitLen(m) <= Precision THEN FCanon(s, m, e)
  ELSE FRoundBy(s, m, e, BigBitLen(m) - Precision)

\* An integer literal (exact: below 2^53).
FromInt(n) ==
  FCanon(IF n < 0 THEN -1 ELSE IF n = 0 THEN 0 ELSE 1,
         BigFromNat(IF n < 0 THEN -n ELSE n), 0)

FNeg(x) == IF IsNaN(x) THEN NaN ELSE [x EXCEPT !.s = -x.s]

\* -1, 0, 1 as |x| < |y|, |x| = |y|, |x| > |y|, for finite x and y.
FCmpAbs(x, y) ==
  LET e == MinOf(x.e, y.e)
  IN  BigCmp(BigShl(x.m, x.e - e), BigShl(y.m, y.e - e))

\* -1, 0, 1 as x < y, x = y, x > y, for finite x and y.
FCmp(x, y) ==
  IF x.s # y.s THEN (IF x.s < y.s THEN -1 ELSE 1)
  ELSE IF x.s = 0 THEN 0
  ELSE x.s * FCmpAbs(x, y)

\* The comparison operators: every comparison with NaN is false.
FLt(x, y) == ~IsNaN(x) /\ ~IsNaN(y) /\ FCmp(x, y) < 0

FGt(x, y) == FLt(y, x)

FLe(x, y) == ~IsNaN(x) /\ ~IsNaN(y) /\ FCmp(x, y) <= 0

FGe(x, y) == FLe(y, x)

\* x + y
\* The sum of sx * mx * 2^e and sy * my * 2^e of opposite signs, c comparing
\* mx with my.
FAddOpposite(sx, mx, sy, my, e, c) ==
  IF c = 0 THEN Zero
  ELSE FRound(IF c > 0 THEN sx ELSE sy,
              IF c > 0 THEN BigSub(mx, my) ELSE BigSub(my, mx), e)

FAddAligned(sx, mx, sy, my, e) ==
  IF sx = sy THEN FRound(sx, BigAdd(mx, my), e)
  ELSE FAddOpposite(sx, mx, sy, my, e, BigCmp(mx, my))

FAdd(x, y) ==
  IF IsNaN(x) \/ IsNaN(y) THEN NaN
  ELSE IF x.s = 0 THEN y
  ELSE IF y.s = 0 THEN x
  ELSE FAddAligned(x.s, BigShl(x.m, x.e - MinOf(x.e, y.e)),
                   y.s, BigShl(y.m, y.e - MinOf(x.e, y.e)), MinOf(x.e, y.e))

\* x - y
FSub(x, y) == FAdd(x, FNeg(y))

\* x * y
FMul(x, y) ==
  IF IsNaN(x) \/ IsNaN(y) THEN NaN
  ELSE FRound(x.s * y.s, BigMul(x.m, y.m), x.e + y.e)

\* Bits of quotient computed before rounding: more than Precision + 1, so that
\* the remainder, kept as one extra low bit, rounds the quotient correctly.
QuotientShift == 5 * LimbBits

\* x / y for a divisor whose mantissa is one limb (every divisor of the engine
\* is a small integer); 0 / 0 is NaN.
FDivRound(s, d, e) ==
  IF d.r = 0 THEN FRound(s, BigShl(d.q, 1), e)
  ELSE FRound(s, BigAdd(BigShl(d.q, 1), BigOne), e)

FDiv(x, y) ==
  CASE IsNaN(x) \/ IsNaN(y) -> NaN
    [] y.s = 0 /\ x.s = 0 -> NaN
    [] y.s # 0 /\ x.s = 0 -> Zero
    [] y.s # 0 /\ x.s # 0 /\ Len(y.m) = 1 ->
         FDivRound(x.s * y.s, BigDivSmall(BigShl(x.m, QuotientShift), y.m[1]),
                   x.e - y.e - QuotientShift - 1)

\* A decimal literal n/d of the source: the binary64 value nearest to it.
Dec(n, d) == FDiv(FromInt(n), FromInt(d))

\* The decimal literals of the source, each the binary64 value nearest to it.
Lit0_05 == Dec(5, 100)

Lit0_1 == Dec(1, 10)

Lit0_2 == Dec(2, 10)

Lit0_5 == Dec(5, 10)

Lit0_6 == Dec(6, 10)

Lit0_9 == Dec(9, 10)

Lit1_5 == Dec(15, 10)

\* Math.abs, Math.sign, Math.min, Math.max
MathAbs(x) == IF IsNaN(x) THEN NaN ELSE [x EXCEPT !.s = x.s * x.s]

MathSign(x) == IF IsNaN(x) THEN NaN ELSE FromInt(x.s)

MathMin(x, y) ==
  IF IsNaN(x) \/ IsNaN(y) THEN NaN ELSE IF FCmp(x, y) <= 0 THEN x ELSE y

MathMax(x, y) ==
  IF IsNaN(x) \/ IsNaN(y) THEN NaN ELSE IF FCmp(x, y) >= 0 THEN x ELSE y

\* Math.round: the integer nearest to x, a tie going to the larger one
\* (floor(x + 1/2) computed exactly).
\* ceil(t / 2^n)
BigCeilShr(t, n) == BigShr(BigAdd(t, BigSub(BigShl(BigOne, n), BigOne)), n)

\* x is s * m / 2^n with n > 0, and half is 2^(n - 1):
\* floor(x + 1/2) is floor((m + half) / 2^n) for x > 0 and
\* -ceil((m - half) / 2^n) for x < 0.
MathRoundHalf(s, m, n, half) ==
  IF s > 0 THEN FRound(1, BigShr(BigAdd(m, half), n), 0)
  ELSE IF BigCmp(m, half) <= 0 THEN Zero
  ELSE FRound(-1, BigCeilShr(BigSub(m, half), n), 0)

MathRound(x) ==
  IF IsNaN(x) THEN NaN
  ELSE IF x.e >= 0 THEN x
  ELSE MathRoundHalf(x.s, x.m, -x.e, BigShl(BigOne, -x.e - 1))

\* x || 0 : NaN and 0 are falsy.
OrZero(x) == IF IsNaN(x) \/ x.s = 0 THEN Zero ELSE x

\* Whether a number is truthy.
Truthy(x) == ~IsNaN(x) /\ x.s # 0

\* Math.pow(x, 2): the square, taken as correctly rounded.
MathPow2(x) == FMul(x, x)

\* The largest r + d with d < 2^(bit + 1) and (r + d)^2 <= n, for r^2 <= n: one
\* result bit at a time from the top.
BigSqrtFits(n, c) == BigCmp(BigMul(c, c), n) <= 0

RECURSIVE BigSqrtBits(_, _, _)
BigSqrtBits(n, r, bit) ==
  IF bit < 0 THEN r
  ELSE IF BigSqrtFits(n, BigAdd(r, <<2 ^ bit>>))
  THEN BigSqrtBits(n, BigAdd(r, <<2 ^ bit>>), bit - 1)
  ELSE BigSqrtBits(n, r, bit - 1)

\* floor(sqrt(n)) from r = floor(sqrt(floor(n / 4^(LimbBits * k)))), one limb
\* of result bits at a time; the root so far moves up one limb.
RECURSIVE BigSqrtFrom(_, _, _)
BigSqrtFrom(n, r, k) ==
  IF k = 0 THEN r
  ELSE IF r = <<>>
  THEN BigSqrtFrom(n, BigSqrtBits(BigShr(n, 2 * LimbBits * (k - 1)), <<>>, LimbBits - 1), k - 1)
  ELSE BigSqrtFrom(n, BigSqrtBits(BigShr(n, 2 * LimbBits * (k - 1)), <<0>> \o r, LimbBits - 1), k - 1)

BigSqrt(n) == BigSqrtFrom(n, <<>>, (Len(n) + 1) \div 2)

\* Math.sqrt of a number that is not negative: the root of the mantissa scaled
\* by 2^t to an even exponent and to at least RootBits bits, the inexact rest
\* kept as one extra low bit.
RootBits == 2 * (Precision + 2)

MathSqrtRooted(n, r, e) ==
  IF BigMul(r, r) = n THEN FRound(1, BigShl(r, 1), e)
  ELSE FRound(1, BigAdd(BigShl(r, 1), BigOne), e)

MathSqrtScaled(n, e) == MathSqrtRooted(n, BigSqrt(n), e)

MathSqrtShifted(x, t) == MathSqrtScaled(BigShl(x.m, t), (x.e - t) \div 2 - 1)

MathSqrtBy(x, t) == MathSqrtShifted(x, t + ((x.e - t) % 2))

MathSqrt(x) ==
  CASE IsNaN(x) -> NaN
    [] ~IsNaN(x) /\ x.s = 0 -> Zero
    [] ~IsNaN(x) /\ x.s > 0 -> MathSqrtBy(x, RootBits - BigBitLen(x.m))

(***************************************************************************)
(* Text.  A string is the sequence of its characters.                      *)
(***************************************************************************)
UpperLetters == <<"A", "B", "C", "D", "E", "F", "G", "H", "I", "J", "K", "L", "M", "N", "O", "P", "Q", "R", "S", "T", "U", "V", "W", "X", "Y", "Z">>

LowerLetters == <<"a", "b", "c", "d", "e", "f", "g", "h", "i", "j", "k", "l", "m", "n", "o", "p", "q", "r", "s", "t", "u", "v", "w", "x", "y", "z">>

\* String.prototype.toLowerCase
ToLowerCase(text) ==
  [i \in 1..Len(text) |->
     IF \E j \in 1..Len(UpperLetters) : UpperLetters[j] = text[i]
     THEN LowerLetters[CHOOSE j \in 1..Len(UpperLetters) : UpperLetters[j] = text[i]]
     ELSE text[i]]

\* String.prototype.includes: word occurs in text as a substring.
Includes(text, word) ==
  \E i \in 1..(Len(text) - Len(word) + 1) : SubSeq(text, i, i + Len(word) - 1) = word

\* String.prototype.split on a one-character separator.
RECURSIVE SplitFrom(_, _, _)
SplitFrom(text, sep, piece) ==
  IF text = <<>> THEN <<piece>>
  ELSE IF Head(text) = sep THEN <<piece>> \o SplitFrom(Tail(text), sep, <<>>)
  ELSE SplitFrom(Tail(text), sep, Append(piece, Head(text)))

Split(text, sep) == SplitFrom(text, sep, <<>>)

(***************************************************************************)
(* StockPredictionService.analyzeSentiment and calculateStandardDeviation  *)
(***************************************************************************)
positiveWords ==
  << <<"g", "r", "o", "w", "t", "h">>, <<"p", "r", "o", "f", "i", "t">>, <<"i", "n", "c", "r", "e", "a", "s", "e">>, <<"r", "i", "s", "e">>, <<"g", "a", "i", "n">>,
     <<"s", "u", "c", "c", "e", "s", "s">>, <<"s", "t", "r", "o", "n", "g">>, <<"b", "e", "a", "t">>, <<"e", "x", "c", "e", "e", "d">>, <<"u", "p">> >>

negativeWords ==
  << <<"d", "e", "c", "l", "i", "n", "e">>, <<"l", "o", "s", "s">>, <<"f", "a", "l", "l">>, <<"d", "r", "o", "p">>, <<"w", "e", "a", "k">>,
     <<"m", "i", "s", "s">>, <<"c", "o", "n", "c", "e", "r", "n">>, <<"r", "i", "s", "k">>, <<"u", "n", "c", "e", "r", "t", "a", "i", "n", "t", "y">>, <<"d", "o", "w", "n">> >>

\* `${item.title} ${item.description}`.ToLowerCase()
ItemText(item) == ToLowerCase(item.title \o <<" ">> \o item.description)

\* The number of places where word occurs in text.
Occurrences(text, word) ==
  Cardinality({i \in 1..(Len(text) - Len(word) + 1) :
                 SubSeq(text, i, i + Len(word) - 1) = word})

\* A score that counts every occurrence of a listed word.
WordScoreOccurrences(text) ==
  Cardinality({p \in (1..Len(positiveWords)) \X (1..Len(text)) :
                 p[2] <= Occurrences(text, positiveWords[p[1]])})
  - Cardinality({p \in (1..Len(negativeWords)) \X (1..Len(text)) :
                   p[2] <= Occurrences(text, negativeWords[p[1]])})

\* The score after the two forEach loops: +1 for every positive word the text
\* includes, -1 for every negative word it includes.
WordScore(text) ==
  Cardinality({i \in 1..Len(positiveWords) : Includes(text, positiveWords[i])})
  - Cardinality({i \in 1..Len(negativeWords) : Includes(text, negativeWords[i])})

\* The map callback without the clamp: score / 5.
ItemSentimentUnclamped(item) ==
  FDiv(FromInt(WordScore(ItemText(item))), FromInt(5))

\* The map callback: Math.max(-1, Math.min(1, score / 5)).
ItemSentiment(item) ==
  MathMax(FromInt(-1), MathMin(FromInt(1), FDiv(FromInt(WordScore(ItemText(item))), FromInt(5))))

\* values.reduce((a, b) => a + b, 0): a left fold from 0.
RECURSIVE ReduceSum(_, _)
ReduceSum(values, acc) ==
  IF values = <<>> THEN acc ELSE ReduceSum(Tail(values), FAdd(acc, Head(values)))

SumOf(values) == ReduceSum(values, Zero)

\* values.filter(keep).length for a predicate given as the set of kept indices.
CountWhere(values, Keep(_)) == Cardinality({i \in 1..Len(values) : Keep(values[i])})

\* values.reduce((a, b) => a + b, 0) / values.length
MeanOf(values) == FDiv(SumOf(values), FromInt(Len(values)))

\* values.map((v) => Math.pow(v - avg, 2))
SquareDiffs(values, avg) ==
  [i \in 1..Len(values) |-> MathPow2(FSub(values[i], avg))]

calculateStandardDeviation(values) ==
  MathSqrt(MeanOf(SquareDiffs(values, MeanOf(values))))

\* newsData.map(...): the sentiment of every item.
Sentiments(newsItems) ==
  [i \in 1..Len(newsItems) |-> ItemSentiment(newsItems[i])]

\* (s) => s >= 0: a score of 0 counted as positive.
IsPositiveOrZero(v) == FGe(v, Zero)

\* (s) => s > 0.1 and (s) => s < -0.1
IsPositive(v) == FGt(v, Lit0_1)

IsNegative(v) == FLt(v, FNeg(Lit0_1))

\* The object analyzeSentiment returns, from the sentiments of the items.
SentimentData(sentiments) ==
  [avgSentiment        |-> OrZero(MeanOf(sentiments)),
   sentimentVolatility |-> calculateStandardDeviation(sentiments),
   positiveNewsRatio   |->
     OrZero(FDiv(FromInt(CountWhere(sentiments, IsPositive)), FromInt(Len(sentiments)))),
   negativeNewsRatio   |->
     OrZero(FDiv(FromInt(CountWhere(sentiments, IsNegative)), FromInt(Len(sentiments)))),
   newsVolume          |-> FromInt(Len(sentiments))]

analyzeSentiment(newsItems) == SentimentData(Sentiments(newsItems))

(***************************************************************************)
(* StockPredictionService.makeSimplePrediction.  The local variables score *)
(* and reasoning are threaded through the statements in source order.      *)
(***************************************************************************)
Bump(st, delta, reason) ==
  [reasoning |-> Append(st.reasoning, reason), score |-> FAdd(st.score, delta)]

\* let score = 0; let reasoning = [];
FuseStart == [score |-> Zero, reasoning |-> <<>>]

\* Sentiment factors
SentimentFactor(st, sentiment) ==
  IF FGt(sentiment.avgSentiment, Lit0_2)
  THEN Bump(st, FromInt(2), "Positive news sentiment")
  ELSE IF FLt(sentiment.avgSentiment, FNeg(Lit0_2))
  THEN Bump(st, FromInt(-2), "Negative news sentiment")
  ELSE st

\* The RSI factor with the thresholds included.
RsiFactorInclusive(st, technical) ==
  IF FLe(technical.rsi, FromInt(30))
  THEN Bump(st, FromInt(2), "RSI indicates oversold condition")
  ELSE IF FGe(technical.rsi, FromInt(70))
  THEN Bump(st, FromInt(-2), "RSI indicates overbought condition")
  ELSE st

\* Technical factors: RSI
RsiFactor(st, technical) ==
  IF FLt(technical.rsi, FromInt(30))
  THEN Bump(st, FromInt(2), "RSI indicates oversold condition")
  ELSE IF FGt(technical.rsi, FromInt(70))
  THEN Bump(st, FromInt(-2), "RSI indicates overbought condition")
  ELSE st

\* The MACD factor with a neutral case at macd = 0.
MacdFactorNeutral(st, technical) ==
  IF FGt(technical.macd, Zero)
  THEN Bump(st, FromInt(1), "MACD shows bullish momentum")
  ELSE IF FLt(technical.macd, Zero)
  THEN Bump(st, FromInt(-1), "MACD shows bearish momentum")
  ELSE st

\* Technical factors: MACD
MacdFactor(st, technical) ==
  IF FGt(technical.macd, Zero)
  THEN Bump(st, FromInt(1), "MACD shows bullish momentum")
  ELSE Bump(st, FromInt(-1), "MACD shows bearish momentum")

\* The price factor with thresholds 3 and -3.
MomentumFactorAbove3(st, technical) ==
  IF FGt(technical.priceChange1d, FromInt(3))
  THEN Bump(st, FromInt(1), "Strong recent price momentum")
  ELSE IF FLt(technical.priceChange1d, FromInt(-3))
  THEN Bump(st, FromInt(-1), "Weak recent price momentum")
  ELSE st

\* Technical factors: one-day price change
MomentumFactor(st, technical) ==
  IF FGt(technical.priceChange1d, FromInt(2))
  THEN Bump(st, FromInt(1), "Strong recent price momentum")
  ELSE IF FLt(technical.priceChange1d, FromInt(-2))
  THEN Bump(st, FromInt(-1), "Weak recent price momentum")
  ELSE st

\* The volume confirmation moving the score by 1.
VolumeConfirmationWhole(st, technical) ==
  IF FGt(technical.volumeRatio, Lit1_5)
  THEN Bump(st, MathSign(st.score), "High volume confirms trend")
  ELSE st

\* The volume confirmation skipped altogether when the score is 0.
VolumeConfirmationNonZero(st, technical) ==
  IF FGt(technical.volumeRatio, Lit1_5) /\ st.score # Zero
  THEN Bump(st, FMul(MathSign(st.score), Lit0_5), "High volume confirms trend")
  ELSE st

\* Volume confirmation: score += Math.sign(score) * 0.5
VolumeConfirmation(st, technical) ==
  IF FGt(technical.volumeRatio, Lit1_5)
  THEN Bump(st, FMul(MathSign(st.score), Lit0_5), "High volume confirms trend")
  ELSE st

\* The score and reasons before the volume confirmation.
FuseBeforeVolume(sentiment, technical) ==
  MomentumFactor(
    MacdFactor(RsiFactor(SentimentFactor(FuseStart, sentiment), technical), technical),
    technical)

\* The score and reasons after the last factor.
FuseFactors(sentiment, technical) ==
  VolumeConfirmation(FuseBeforeVolume(sentiment, technical), technical)

\* The decision with the SELL confidence taken from score + 3 without Math.abs.
DetermineActionNoAbs(score) ==
  IF FGe(score, FromInt(3))
  THEN [action     |-> "BUY",
        confidence |-> MathMin(Lit0_9,
                               FAdd(Lit0_6, FMul(FSub(score, FromInt(3)), Lit0_1)))]
  ELSE IF FLe(score, FromInt(-3))
  THEN [action     |-> "SELL",
        confidence |-> MathMin(Lit0_9,
                               FAdd(Lit0_6, FMul(FAdd(score, FromInt(3)), Lit0_1)))]
  ELSE [action     |-> "HOLD",
        confidence |-> FAdd(Lit0_5, FMul(MathAbs(score), Lit0_05))]

\* The decision with strict thresholds (score > 3, score < -3).
DetermineActionStrict(score) ==
  IF FGt(score, FromInt(3))
  THEN [action     |-> "BUY",
        confidence |-> MathMin(Lit0_9,
                               FAdd(Lit0_6, FMul(FSub(score, FromInt(3)), Lit0_1)))]
  ELSE IF FLt(score, FromInt(-3))
  THEN [action     |-> "SELL",
        confidence |-> MathMin(Lit0_9,
                               FAdd(Lit0_6,
                                    FMul(MathAbs(FAdd(score, FromInt(3))), Lit0_1)))]
  ELSE [action     |-> "HOLD",
        confidence |-> FAdd(Lit0_5, FMul(MathAbs(score), Lit0_05))]

\* Determine action
DetermineAction(score) ==
  IF FGe(score, FromInt(3))
  THEN [action     |-> "BUY",
        confidence |-> MathMin(Lit0_9,
                               FAdd(Lit0_6, FMul(FSub(score, FromInt(3)), Lit0_1)))]
  ELSE IF FLe(score, FromInt(-3))
  THEN [action     |-> "SELL",
        confidence |-> MathMin(Lit0_9,
                               FAdd(Lit0_6,
                                    FMul(MathAbs(FAdd(score, FromInt(3))), Lit0_1)))]
  ELSE [action     |-> "HOLD",
        confidence |-> FAdd(Lit0_5, FMul(MathAbs(score), Lit0_05))]

\* Math.round(confidence * 100) / 100
RoundConfidence(confidence) ==
  FDiv(MathRound(FMul(confidence, FromInt(100))), FromInt(100))

\* reasoning.slice(0, 2)
SliceFirst2(reasoning) == SubSeq(reasoning, 1, MinOf(2, Len(reasoning)))

\* reasoning.slice(-3): the last three reasons.
SliceLast3(reasoning) ==
  SubSeq(reasoning, MaxOf(1, Len(reasoning) - 2), Len(reasoning))

\* reasoning.slice(0, 3)
Slice3(reasoning) == SubSeq(reasoning, 1, MinOf(3, Len(reasoning)))

\* The returned object, from the decision d and the reasons collected.
PredictionResult(d, reasoning) ==
  [action     |-> d.action,
   confidence |-> RoundConfidence(d.confidence),
   reasoning  |-> Slice3(reasoning)]

\* The statements after the last factor, st holding score and reasoning.
Decide(st) == PredictionResult(DetermineAction(st.score), st.reasoning)

makeSimplePrediction(sentiment, technical) ==
  Decide(FuseFactors(sentiment, technical))

(***************************************************************************)
(* The outside world of one predictStock call: what the Guardian API       *)
(* answers to fetch(url), and what the technical-data generator returns.   *)
(***************************************************************************)
MaxNews == 1

MaxSymbols == 1

\* Results of the Guardian search API (webTitle, fields.trailText, ...).
GuardianArticles ==
  { [webTitle |-> <<"P", "r", "o", "f", "i", "t", "s", " ", "U", "P">>, hasTrailText |-> FALSE, trailText |-> <<>>,
     webPublicationDate |-> "2025-01-02T09:00:00Z", webUrl |-> "https://www.theguardian.com/a1"],
    [webTitle |-> <<"M", "a", "r", "k", "e", "t", "s", " ", "f", "a", "l", "l">>, hasTrailText |-> TRUE, trailText |-> <<"R", "i", "s", "k", " ", "o", "f", " ", "l", "o", "s", "s">>,
     webPublicationDate |-> "2025-01-02T10:00:00Z", webUrl |-> "https://www.theguardian.com/a2"] }

RECURSIVE SeqsUpTo(_, _)
SeqsUpTo(S, n) ==
  IF n = 0 THEN {<<>>}
  ELSE LET shorter == SeqsUpTo(S, n - 1)
       IN  shorter \cup {Append(q, x) : q \in shorter, x \in S}

\* What fetch(url) can come to: a rejected promise, a response with a status,
\* a body that is not JSON, a body without response.results, or with results.
FetchOutcomes ==
  { [kind |-> "reject", status |-> 0, hasResults |-> FALSE, results |-> <<>>],
    [kind |-> "response", status |-> 500, hasResults |-> FALSE, results |-> <<>>],
    [kind |-> "badjson", status |-> 200, hasResults |-> FALSE, results |-> <<>>],
    [kind |-> "response", status |-> 200, hasResults |-> FALSE, results |-> <<>>] }
  \cup { [kind |-> "response", status |-> 200, hasResults |-> TRUE, results |-> r] :
           r \in SeqsUpTo(GuardianArticles, MaxNews) }

\* The fetch is not made when the API key is missing.
NoFetch == [kind |-> "none", status |-> 0, hasResults |-> FALSE, results |-> <<>>]

\* Records generateMockTechnicalData can return (Math.random() is in [0, 1)).
MockSnapshots ==
  { [currentPrice |-> FromInt(120), priceChange1d |-> FromInt(3), volumeRatio |-> FromInt(2),
     rsi |-> FromInt(25), macd |-> Lit0_5, bbPosition |-> Lit0_5,
     sma20Ratio |-> FromInt(1), sma50Ratio |-> FromInt(1), volatility |-> FromInt(20)],
    [currentPrice |-> FromInt(80), priceChange1d |-> FromInt(-3), volumeRatio |-> FromInt(1),
     rsi |-> FromInt(75), macd |-> FNeg(Lit0_5), bbPosition |-> Lit0_5,
     sma20Ratio |-> FromInt(1), sma50Ratio |-> FromInt(1), volatility |-> FromInt(40)] }

\* The outcomes of the try block of getTechnicalIndicators: a record, or a throw.
TechOutcomes ==
  { [kind |-> "data", data |-> t] : t \in MockSnapshots }
  \cup { [kind |-> "throw", data |-> <<>>] }

NoTech == [kind |-> "none", data |-> <<>>]

\* Results of a call: a returned value or a thrown Error with its message, and
\* the lookback windows (hours) of the fetch(url) calls made during it.
Return(v, fetched) == [ok |-> TRUE, value |-> v, error |-> <<>>, fetched |-> fetched]

Throw(msg, fetched) == [ok |-> FALSE, value |-> <<>>, error |-> msg, fetched |-> fetched]

(***************************************************************************)
(* StockPredictionService.fetchGuardianNews                                *)
(***************************************************************************)
\* The map callback over data.response.results.
NewsItemOf(article) ==
  [title       |-> article.webTitle,
   description |-> IF article.hasTrailText THEN article.trailText ELSE <<>>,
   publishedAt |-> article.webPublicationDate,
   url         |-> article.webUrl]

fetchGuardianNews(hours, apiKey, outcome) ==
  IF ~apiKey THEN Throw(<<"Missing Guardian API key">>, <<>>)
  ELSE IF outcome.kind = "reject" THEN Throw(<<"fetch failed">>, <<hours>>)
  ELSE IF ~(outcome.status >= 200 /\ outcome.status <= 299)
  THEN Throw(<<"Guardian API error: ", outcome.status>>, <<hours>>)
  ELSE IF outcome.kind = "badjson" THEN Throw(<<"Unexpected token in JSON">>, <<hours>>)
  ELSE Return([i \in 1..Len(outcome.results) |-> NewsItemOf(outcome.results[i])], <<hours>>)

(***************************************************************************)
(* StockPredictionService.getTechnicalIndicators: the try block's result,  *)
(* or null from the catch.                                                 *)
(***************************************************************************)
Null == <<>>

getTechnicalIndicators(symbol, tech) ==
  IF tech.kind = "data" THEN tech.data ELSE Null

(***************************************************************************)
(* StockPredictionService.predictStock: the catch logs and rethrows.       *)
(***************************************************************************)
\* analyzeSentiment and makeSimplePrediction are pure: their values on the news
\* batches and snapshots of this outside world are computed once and looked up.
NewsBatches ==
  {[i \in 1..Len(r) |-> NewsItemOf(r[i])] : r \in SeqsUpTo(GuardianArticles, MaxNews)}

SentimentTable == {<<items, analyzeSentiment(items)>> : items \in NewsBatches}

SentimentOf(newsItems) == (CHOOSE e \in SentimentTable : e[1] = newsItems)[2]

PredictionTable ==
  {<<e[2], t, makeSimplePrediction(e[2], t)>> : e \in SentimentTable, t \in MockSnapshots}

PredictionOf(sentiment, technical) ==
  (CHOOSE e \in PredictionTable : e[1] = sentiment /\ e[2] = technical)[3]

\* The prediction object predictStock returns.
PredictionRecord(symbol, prediction, techData, sentimentData) ==
  [symbol     |-> symbol,
   prediction |-> prediction.action,
   confidence |-> prediction.confidence,
   reasoning  |-> prediction.reasoning,
   currentPrice |-> techData.currentPrice,
   technicalIndicators |->
     [rsi           |-> techData.rsi,
      macd          |-> techData.macd,
      volatility    |-> techData.volatility,
      priceChange1d |-> techData.priceChange1d],
   sentimentAnalysis |-> sentimentData]

\* The null check replaced by a default snapshot.
PredictFromDataDefaulting(symbol, sentimentData, techData, fetched) ==
  IF techData = Null
  THEN Return(PredictionRecord(symbol,
                               PredictionOf(sentimentData,
                                            CHOOSE t \in MockSnapshots : TRUE),
                               CHOOSE t \in MockSnapshots : TRUE, sentimentData),
              fetched)
  ELSE Return(PredictionRecord(symbol, PredictionOf(sentimentData, techData),
                               techData, sentimentData),
              fetched)

\* From the null check of techData on.
PredictFromData(symbol, sentimentData, techData, fetched) ==
  IF techData = Null
  THEN Throw(<<"Could not fetch technical data for ", symbol>>, fetched)
  ELSE Return(PredictionRecord(symbol, PredictionOf(sentimentData, techData),
                               techData, sentimentData),
              fetched)

\* After the await of fetchGuardianNews, news being its result.
PredictFromNews(symbol, news, tech) ==
  IF ~news.ok THEN Throw(news.error, news.fetched)
  ELSE PredictFromData(symbol, SentimentOf(news.value),
                       getTechnicalIndicators(symbol, tech), news.fetched)

predictStock(symbol, apiKey, outcome, tech) ==
  PredictFromNews(symbol, fetchGuardianNews(24, apiKey, outcome), tech)

(***************************************************************************)
(* StockPredictionService.predictPortfolio: one iteration of the for loop. *)
(* The catch turns a throw of predictStock into an error marker.           *)
(***************************************************************************)
\* The loop body without its catch: a throw of predictStock leaves the loop.
PortfolioEntryNoCatch(symbol, r) == r

\* The entry pushed for symbol, r being the result of predictStock.
PortfolioEntry(symbol, r) ==
  IF r.ok THEN Return(r.value, r.fetched)
  ELSE Return([symbol |-> symbol, error |-> <<"Failed to predict: ">> \o r.error],
              r.fetched)

PortfolioIteration(symbol, apiKey, outcome, tech) ==
  PortfolioEntry(symbol, predictStock(symbol, apiKey, outcome, tech))

(***************************************************************************)
(* GET: the request's parameters, the summary and the response.            *)
(***************************************************************************)
DefaultSymbols == << <<"A", "A", "P", "L">>, <<"G", "O", "O", "G", "L">>, <<"M", "S", "F", "T">> >>

Disclaimer ==
  "This is for educational purposes only. Not financial advice. Past performance does not guarantee future results."

\* A query parameter: searchParams.get(name) is null when it is absent.
Absent == [present |-> FALSE, value |-> <<>>]

Param(text) == [present |-> TRUE, value |-> text]

\* searchParams.get("symbols")?.split(",") || ["AAPL", "GOOGL", "MSFT"]
\* (an array is truthy, also the [""] that "".split(",") gives).
SymbolsOf(param) == IF param.present THEN Split(param.value, ",") ELSE DefaultSymbols

Digits == <<"0", "1", "2", "3", "4", "5", "6", "7", "8", "9">>

DigitValue(c) == (CHOOSE i \in 1..Len(Digits) : Digits[i] = c) - 1

IsDigit(c) == \E i \in 1..Len(Digits) : Digits[i] = c

RECURSIVE ParseDigits(_, _)
ParseDigits(text, acc) ==
  IF text = <<>> \/ ~IsDigit(Head(text)) THEN acc
  ELSE ParseDigits(Tail(text), 10 * acc + DigitValue(Head(text)))

\* parseInt(text, 10): leading blanks, a sign, then the leading digits; NaN
\* when there are none.
RECURSIVE ParseInt(_)
ParseInt(text) ==
  IF text # <<>> /\ Head(text) = " " THEN ParseInt(Tail(text))
  ELSE LET neg  == text # <<>> /\ Head(text) = "-"
           rest == IF text # <<>> /\ Head(text) \in {"-", "+"} THEN Tail(text) ELSE text
       IN  IF rest = <<>> \/ ~IsDigit(Head(rest)) THEN NaN
           ELSE FromInt((IF neg THEN -1 ELSE 1) * ParseDigits(rest, 0))

\* parseInt(searchParams.get("hours") || "24", 10): null and "" are falsy.
HoursOf(param) ==
  ParseInt(IF param.present /\ param.value # <<>> THEN param.value ELSE <<"2", "4">>)

\* !p.error : a prediction has no error property, and a marker's is a non-empty string.
HasError(p) == "error" \in DOMAIN p

\* !p.error && p.confidence
HasConfidence(p) == ~HasError(p) /\ Truthy(p.confidence)

\* predictions.filter(keep)
Filter(entries, Keep(_)) == SelectSeq(entries, Keep)

\* .reduce((acc, p) => acc + (p.confidence || 0), 0)
RECURSIVE ReduceConfidence(_, _)
ReduceConfidence(entries, acc) ==
  IF entries = <<>> THEN acc
  ELSE ReduceConfidence(Tail(entries), FAdd(acc, OrZero(Head(entries).confidence)))

\* A count that looks at no action.
SignalsOfAny(predictions, action) == Len(Filter(predictions, HasConfidence))

Signals(predictions, action) ==
  LET Keep(p) == ~HasError(p) /\ p.prediction = action
  IN  Len(Filter(predictions, Keep))

SummaryOf(symbols, predictions) ==
  [totalSymbols  |-> Len(symbols),
   buySignals    |-> Signals(predictions, "BUY"),
   sellSignals   |-> Signals(predictions, "SELL"),
   holdSignals   |-> Signals(predictions, "HOLD"),
   avgConfidence |->
     OrZero(FDiv(ReduceConfidence(Filter(predictions, HasConfidence), Zero),
                 FromInt(Len(Filter(predictions, HasConfidence)))))]

\* A response that leaves the error markers out.
OkResponseSuccesses(predictions, summary) ==
  [status |-> 200, predictions |-> Filter(predictions, HasConfidence),
   summary |-> summary, disclaimer |-> Disclaimer]

\* NextResponse.json(...) of the try block and of the catch block.
OkResponse(predictions, summary) ==
  [status |-> 200, predictions |-> predictions, summary |-> summary,
   disclaimer |-> Disclaimer]

ErrorResponse(msg) ==
  [status |-> 500, error |-> "Failed to generate predictions", details |-> msg]

NoResponse == [status |-> 0]

(***************************************************************************)
(* The GET handler as a state machine: it parses the request, runs the     *)
(* portfolio loop one symbol at a time and answers.  One request is served *)
(* at a time; the service instance has no field the handler writes, so     *)
(* requests do not interact.  The timestamps of a prediction and of the    *)
(* summary are left out: nothing reads them.                               *)
(***************************************************************************)
VARIABLES
  instance,     \* the static field StockPredictionService.instance
  apiKey,       \* whether process.env.GUARDIAN_KEY is set
  req,          \* the query parameters symbols and hours of the request
  pc,           \* "idle", "portfolio" (in the for loop) or "done"
  symbols,      \* GET's symbols
  hours,        \* GET's hours
  idx,          \* the position of the for loop in symbols
  predictions,  \* predictPortfolio's predictions
  response,     \* the response of the last request
  fetches,      \* history: the lookback window of every fetch(url) of the request
  world,        \* history: what the outside world answered in each iteration
  call,         \* the arguments of the last direct call of a service method
  result,       \* what that call returned, and the locals it went through
  calls,        \* history: the direct calls made so far, with what they returned
  otpCodes,     \* the OtpCode table, in the order of creation
  dbUsers,      \* the User table
  kycSubmissions, \* the KycSubmission table
  users,        \* the users array of the register route
  procs,        \* the requests of the account routes: where each one is, its locals
  clock         \* the time new Date() gives

vars ==
  <<instance, apiKey, req, pc, symbols, hours, idx, predictions, response, fetches,
    world, call, result, calls, otpCodes, dbUsers, kycSubmissions, users, procs, clock>>

\* The state of the account routes (OTP, register, KYC), which the stock
\* prediction route neither reads nor writes.
accountVars == <<otpCodes, dbUsers, kycSubmissions, users, procs, clock>>

\* The state of the stock prediction route, which the account routes neither
\* read nor write.
stockVars ==
  <<instance, apiKey, req, pc, symbols, hours, idx, predictions, response, fetches,
    world, call, result, calls>>

AccountsIdle ==
  /\ otpCodes = <<>>
  /\ dbUsers = <<>>
  /\ kycSubmissions = <<>>
  /\ users = <<>>
  /\ procs = <<>>
  /\ clock = 0

\* No service method has been called directly.
NoCall == [op |-> "none"]

\* The static field before the first getInstance: serial counts the instances
\* constructed so far, modelTrained is the field of the instance.
NoInstance == [serial |-> 0, modelTrained |-> FALSE]

\* getInstance with the test of the static field left out.
getInstanceFresh(inst) == [serial |-> inst.serial + 1, modelTrained |-> FALSE]

\* StockPredictionService.getInstance: the static field after the call.
getInstance(inst) ==
  IF inst = NoInstance THEN [serial |-> 1, modelTrained |-> FALSE] ELSE inst

Tickers == { <<"A", "A", "P", "L">>, <<"a", "a", "p", "l">> }

RECURSIVE Join(_)
Join(pieces) ==
  IF Len(pieces) = 1 THEN pieces[1]
  ELSE pieces[1] \o <<",">> \o Join(Tail(pieces))

\* The symbols parameter of a request: absent, empty, or tickers joined by ",".
SymbolsParams ==
  {Absent, Param(<<>>)}
  \cup {Param(Join(q)) : q \in SeqsUpTo(Tickers, MaxSymbols) \ {<<>>}}

HoursParams == {Absent, Param(<<"4", "8">>), Param(<<"-", "5">>)}

Init ==
  /\ instance = NoInstance
  /\ apiKey \in BOOLEAN
  /\ req = [symbols |-> Absent, hours |-> Absent]
  /\ pc = "idle"
  /\ symbols = <<>>
  /\ hours = Zero
  /\ idx = 1
  /\ predictions = <<>>
  /\ response = NoResponse
  /\ fetches = <<>>
  /\ world = <<>>
  /\ call = NoCall
  /\ result = NoCall
  /\ calls = <<>>
  /\ AccountsIdle

\* GET up to the call of predictPortfolio.
GET_Start ==
  /\ pc \in {"idle", "done"}
  /\ \E sp \in SymbolsParams, hp \in HoursParams :
       /\ req' = [symbols |-> sp, hours |-> hp]
       /\ symbols' = SymbolsOf(sp)
       /\ hours' = HoursOf(hp)
  /\ idx' = 1
  /\ predictions' = <<>>
  /\ response' = NoResponse
  /\ fetches' = <<>>
  /\ world' = <<>>
  /\ instance' = getInstance(instance)
  /\ pc' = "portfolio"
  /\ UNCHANGED <<apiKey, call, result, calls, accountVars>>

\* What of the outside world an iteration consults: no fetch without an API
\* key, no technical data after a failed news fetch.
Consulted(outcome, tech) ==
  [news |-> IF apiKey THEN outcome ELSE NoFetch,
   tech |-> IF fetchGuardianNews(24, apiKey, outcome).ok THEN tech ELSE NoTech]

\* One iteration of predictPortfolio's loop.  A throw that left the loop would
\* end in GET's catch block.
PortfolioStep ==
  /\ pc = "portfolio"
  /\ idx <= Len(symbols)
  /\ \E outcome \in FetchOutcomes, tech \in TechOutcomes :
       \E r \in {PortfolioIteration(symbols[idx], apiKey, outcome, tech)} :
           /\ fetches' = fetches \o r.fetched
           /\ world' = Append(world, Consulted(outcome, tech))
           /\ IF r.ok
              THEN /\ predictions' = Append(predictions, r.value)
                   /\ idx' = idx + 1
                   /\ UNCHANGED <<pc, response>>
              ELSE /\ response' = ErrorResponse(r.error)
                   /\ pc' = "done"
                   /\ UNCHANGED <<predictions, idx>>
  /\ UNCHANGED <<instance, apiKey, req, symbols, hours, call, result, calls, accountVars>>

\* GET after predictPortfolio has returned: the summary and the response.
GET_Respond ==
  /\ pc = "portfolio"
  /\ idx > Len(symbols)
  /\ response' = OkResponse(predictions, SummaryOf(symbols, predictions))
  /\ pc' = "done"
  /\ UNCHANGED <<instance, apiKey, req, symbols, hours, idx, predictions, fetches, world,
                 call, result, calls, accountVars>>

Next == GET_Start \/ PortfolioStep \/ GET_Respond

Spec == Init /\ [][Next]_vars

(***************************************************************************)
(* GET and POST requests served one after the other.  The locals of a GET  *)
(* are gone when a POST is served; req keeps the query of the last GET.    *)
(* The catch block of POST lies past the end of the source file at hand;   *)
(* it is taken to answer status 500 with the message, as GET's catch does. *)
(***************************************************************************)
\* The bodies of a POST: symbol absent or given, action predict, retrain or
\* something else.
PostBodies ==
  [symbol : {<<>>, <<"A", "A", "P", "L">>}, action : {"predict", "retrain", "sell"}]

\* What POST answers, r being the result of predictStock when action is predict.
PostResponse(body, r) ==
  IF body.symbol = <<>> THEN [status |-> 400, error |-> "Symbol is required"]
  ELSE IF body.action = "predict"
  THEN IF r.ok THEN [status |-> 200, prediction |-> r.value]
       ELSE [status |-> 500, details |-> r.error]
  ELSE IF body.action = "retrain"
  THEN [status |-> 200, message |-> "Model retraining initiated"]
  ELSE [status |-> 400, error |-> "Invalid action"]

POST ==
  /\ pc \in {"idle", "done"}
  /\ \E body \in PostBodies, outcome \in FetchOutcomes, tech \in TechOutcomes :
       /\ response' = PostResponse(body, predictStock(body.symbol, apiKey, outcome, tech))
       /\ instance' = IF body.symbol = <<>> THEN instance ELSE getInstance(instance)
  /\ symbols' = <<>>
  /\ hours' = Zero
  /\ idx' = 1
  /\ predictions' = <<>>
  /\ fetches' = <<>>
  /\ world' = <<>>
  /\ pc' = "done"
  /\ UNCHANGED <<apiKey, req, call, result, calls, accountVars>>

NextService == GET_Start \/ PortfolioStep \/ GET_Respond \/ POST

SpecService == Init /\ [][NextService]_vars

(***************************************************************************)
(* makeSimplePrediction called directly.  Its inputs are taken from a grid *)
(* around the thresholds of the factors; a one-decimal value d/10 is the   *)
(* number literal of that text.                                            *)
(***************************************************************************)
FuseGrid ==
  [avgSentiment10 : {-3, -2, 0, 2, 3},
   rsi            : {25, 30, 50, 70, 75},
   macd10         : {-5, 0, 5},
   priceChange1d  : {-3, -2, 0, 2, 3},
   volumeRatio10  : {10, 15, 16, 20}]

SentimentIn(g) == [avgSentiment |-> Dec(g.avgSentiment10, 10)]

TechnicalIn(g) ==
  [rsi           |-> FromInt(g.rsi),
   macd          |-> Dec(g.macd10, 10),
   priceChange1d |-> FromInt(g.priceChange1d),
   volumeRatio   |-> Dec(g.volumeRatio10, 10)]

\* The input with every directional factor reversed: -avgSentiment, 100 - rsi,
\* -macd, -priceChange1d, and the same volumeRatio.
Mirror(g) ==
  [avgSentiment10 |-> -g.avgSentiment10,
   rsi            |-> 100 - g.rsi,
   macd10         |-> -g.macd10,
   priceChange1d  |-> -g.priceChange1d,
   volumeRatio10  |-> g.volumeRatio10]

\* The input with volumeRatio 1.
Calm(g) == [g EXCEPT !.volumeRatio10 = 10]

\* The request handler at rest.
HandlerIdle ==
  /\ instance = [serial |-> 1, modelTrained |-> FALSE]
  /\ apiKey = TRUE
  /\ req = [symbols |-> Absent, hours |-> Absent]
  /\ pc = "idle"
  /\ symbols = <<>>
  /\ hours = Zero
  /\ idx = 1
  /\ predictions = <<>>
  /\ response = NoResponse
  /\ fetches = <<>>
  /\ world = <<>>
  /\ AccountsIdle

HandlerUnchanged ==
  UNCHANGED <<instance, apiKey, req, pc, symbols, hours, idx, predictions, response, fetches,
              world, accountVars>>

InitFuse == HandlerIdle /\ call = NoCall /\ result = NoCall /\ calls = <<>>

\* One call (the method keeps nothing between calls); result keeps score and
\* reasoning as they are after the sentiment factor, after the RSI factor, after
\* the MACD factor, before and after the volume confirmation, and with it what
\* the method returns for the input with volumeRatio 1 and for the mirrored
\* input (and the score it reaches there).
CallFuse ==
  /\ call = NoCall
  /\ \E g \in FuseGrid :
       /\ call' = [op |-> "makeSimplePrediction", input |-> g]
       /\ result' =
            [afterSentiment |-> SentimentFactor(FuseStart, SentimentIn(g)),
             afterRsi       |-> RsiFactor(SentimentFactor(FuseStart, SentimentIn(g)),
                                          TechnicalIn(g)),
             afterMacd      |-> MacdFactor(RsiFactor(SentimentFactor(FuseStart,
                                                                     SentimentIn(g)),
                                                     TechnicalIn(g)),
                                           TechnicalIn(g)),
             beforeVolume   |-> FuseBeforeVolume(SentimentIn(g), TechnicalIn(g)),
             afterVolume    |-> FuseFactors(SentimentIn(g), TechnicalIn(g)),
             prediction     |-> makeSimplePrediction(SentimentIn(g), TechnicalIn(g)),
             calm           |-> makeSimplePrediction(SentimentIn(Calm(g)),
                                                     TechnicalIn(Calm(g))),
             mirrorScore    |-> FuseFactors(SentimentIn(Mirror(g)),
                                            TechnicalIn(Mirror(g))).score,
             mirror         |-> makeSimplePrediction(SentimentIn(Mirror(g)),
                                                     TechnicalIn(Mirror(g)))]
  /\ HandlerUnchanged
  /\ UNCHANGED calls

NextFuse == CallFuse

SpecFuse == InitFuse /\ [][NextFuse]_vars

(***************************************************************************)
(* analyzeSentiment called directly on sequences of news items.            *)
(***************************************************************************)
MaxItems == 3

\* News items as fetchGuardianNews builds them; their sentiments are
\* 0.4, -0.6, 0.2 ("supply" includes "up", and "up" occurs twice), 0 ("Dow" and
\* "now" are separated by the blank of the template) and 1 (8 / 5 cut to 1).
SampleNews ==
  { [title |-> <<"P", "r", "o", "f", "i", "t", "s", " ", "U", "P">>, description |-> <<>>],
    [title |-> <<"M", "a", "r", "k", "e", "t", "s", " ", "f", "a", "l", "l">>,
     description |-> <<"R", "i", "s", "k", " ", "o", "f", " ", "l", "o", "s", "s">>],
    [title |-> <<"S", "u", "p", "p", "l", "y", " ", "p", "i", "c", "k", "s", " ", "u", "p">>,
     description |-> <<>>],
    [title |-> <<"D", "o", "w">>,
     description |-> <<"n", "o", "w", " ", "a", "t", " ", "a", " ", "r", "e", "c", "o", "r", "d">>],
    [title |-> <<"S", "t", "r", "o", "n", "g", " ", "g", "r", "o", "w", "t", "h", ":", " ",
                 "p", "r", "o", "f", "i", "t", " ", "g", "a", "i", "n", ",", " ",
                 "s", "u", "c", "c", "e", "s", "s">>,
     description |-> <<"b", "e", "a", "t", ",", " ", "e", "x", "c", "e", "e", "d", ",", " ",
                       "r", "i", "s", "e">>] }

InitSentiment == HandlerIdle /\ call = NoCall /\ result = NoCall /\ calls = <<>>

\* One call (the method keeps nothing between calls).
CallSentiment ==
  /\ call = NoCall
  /\ \E newsItems \in SeqsUpTo(SampleNews, MaxItems) :
       /\ call' = [op |-> "analyzeSentiment", input |-> newsItems]
       /\ result' = analyzeSentiment(newsItems)
  /\ HandlerUnchanged
  /\ UNCHANGED calls

NextSentiment == CallSentiment

SpecSentiment == InitSentiment /\ [][NextSentiment]_vars

(***************************************************************************)
(* makeSimplePrediction called repeatedly on the one service instance,     *)
(* with calls of analyzeSentiment in between.  The instance has one field, *)
(* modelTrained, which no method reads or writes.                          *)
(***************************************************************************)
MaxCalls == 3

RepeatGrid ==
  [avgSentiment10 : {-3, 3},
   rsi            : {25},
   macd10         : {-5, 5},
   priceChange1d  : {3},
   volumeRatio10  : {10, 20}]

\* A makeSimplePrediction that reads modelTrained: the first call on the
\* instance answers HOLD without reasons and sets the field.
ServiceCallUntrainedFirst(g) ==
  IF \A i \in 1..Len(calls) : calls[i].op # "makeSimplePrediction"
  THEN [action |-> "HOLD", confidence |-> Lit0_5, reasoning |-> <<>>]
  ELSE makeSimplePrediction(SentimentIn(g), TechnicalIn(g))

\* predictor.makeSimplePrediction(sentiment, technical): score and reasoning
\* are locals, and the body reads nothing but its two parameters.
ServiceCall(g) == makeSimplePrediction(SentimentIn(g), TechnicalIn(g))

InitRepeat == HandlerIdle /\ call = NoCall /\ result = NoCall /\ calls = <<>>

CallFuseAgain ==
  /\ Len(calls) < MaxCalls
  /\ \E g \in RepeatGrid :
       \E out \in {ServiceCall(g)} :
          /\ call' = [op |-> "makeSimplePrediction", input |-> g]
          /\ result' = [prediction |-> out]
          /\ calls' = Append(calls, [op |-> "makeSimplePrediction", input |-> g,
                                     output |-> out])
  /\ HandlerUnchanged

CallSentimentAgain ==
  /\ Len(calls) < MaxCalls
  /\ \E a \in GuardianArticles :
       \E out \in {analyzeSentiment(<<NewsItemOf(a)>>)} :
          /\ call' = [op |-> "analyzeSentiment", input |-> <<NewsItemOf(a)>>]
          /\ result' = out
          /\ calls' = Append(calls, [op |-> "analyzeSentiment",
                                     input |-> <<NewsItemOf(a)>>, output |-> out])
  /\ HandlerUnchanged

NextRepeat == CallFuseAgain \/ CallSentimentAgain

SpecRepeat == InitRepeat /\ [][NextRepeat]_vars

(***************************************************************************)
(* The OTP routes, POST /api/otp/request and POST /api/otp/verify.  Every  *)
(* await of a handler is a point where another request may run, so a       *)
(* handler is one action per database call, with the synchronous code that *)
(* follows the call.  bcrypt.compare touches nothing shared and is taken   *)
(* together with the findFirst before it.                                  *)
(***************************************************************************)
MaxOtps == 2
MaxVerifies == 2
MaxClock == 6

\* Minutes between two readings of the clock.
TickMinutes == 3

\* Minutes an OTP is valid for; the clock counts minutes.
OtpMinutes == 5

\* The phone and purpose of the requests.
OtpSubjects ==
  {[phone |-> "9000000001", purpose |-> "LOGIN"],
   [phone |-> "9000000001", purpose |-> "KYC"],
   [phone |-> "9000000002", purpose |-> "LOGIN"]}

Codes == {"111111", "222222"}

\* null in a DateTime? column.
NullDate == -1

\* The stock prediction route before its module is loaded.
StockAtRest ==
  /\ instance = NoInstance
  /\ apiKey = TRUE
  /\ req = [symbols |-> Absent, hours |-> Absent]
  /\ pc = "idle"
  /\ symbols = <<>>
  /\ hours = Zero
  /\ idx = 1
  /\ predictions = <<>>
  /\ response = NoResponse
  /\ fetches = <<>>
  /\ world = <<>>
  /\ call = NoCall
  /\ result = NoCall
  /\ calls = <<>>

\* bcrypt.hash and bcrypt.compare: compare(code, h) is true exactly when h
\* is the hash of code.
BcryptHash(code) == [bcrypt |-> code]

BcryptCompare(code, codeHash) == codeHash = BcryptHash(code)

Pending == [status |-> 0]

OkTrue == [status |-> 200, ok |-> TRUE]

BadRequest(message) == [status |-> 400, error |-> message]

\* POST /api/otp/request: one row more in OtpCode.  The table keeps the rows in
\* the order of their createdAt.
OtpRequest ==
  /\ Len(otpCodes) < MaxOtps
  /\ \E subject \in OtpSubjects, code \in Codes :
       otpCodes' = Append(otpCodes,
                          [id        |-> Len(otpCodes) + 1,
                           phone     |-> subject.phone,
                           purpose   |-> subject.purpose,
                           codeHash  |-> BcryptHash(code),
                           expiresAt |-> clock + OtpMinutes,
                           consumed  |-> FALSE])
  /\ UNCHANGED <<dbUsers, kycSubmissions, users, procs, clock>>
  /\ UNCHANGED stockVars

\* POST /api/otp/verify up to its first database call: the body is parsed.
VerifyReceive ==
  /\ Len(procs) < MaxVerifies
  /\ \E subject \in OtpSubjects, code \in Codes :
       procs' = Append(procs,
                       [pc |-> "findOtp", phone |-> subject.phone, purpose |-> subject.purpose,
                        code |-> code, otp |-> 0, user |-> 0, stamp |-> NullDate,
                        response |-> Pending])
  /\ UNCHANGED <<otpCodes, dbUsers, kycSubmissions, users, clock>>
  /\ UNCHANGED stockVars

Unconsumed(phone, purpose) ==
  {k \in DOMAIN otpCodes : /\ otpCodes[k].phone = phone
                           /\ otpCodes[k].purpose = purpose
                           /\ ~otpCodes[k].consumed}

\* otpCode.findFirst, newest first; 0 for null.
findFirstOtp(phone, purpose) ==
  IF Unconsumed(phone, purpose) = {} THEN 0
  ELSE CHOOSE k \in Unconsumed(phone, purpose) : \A m \in Unconsumed(phone, purpose) : m <= k

\* The request after findFirst has answered with row k.
VerifyChecked(p, k) ==
  IF k = 0 THEN [p EXCEPT !.pc = "done", !.response = BadRequest("OTP not found")]
  ELSE IF otpCodes[k].expiresAt < clock
    THEN [p EXCEPT !.pc = "done", !.response = BadRequest("OTP expired")]
  ELSE IF ~BcryptCompare(p.code, otpCodes[k].codeHash)
    THEN [p EXCEPT !.pc = "done", !.response = BadRequest("Invalid OTP")]
  ELSE [p EXCEPT !.pc = "consume", !.otp = k]

VerifyFindOtp ==
  /\ \E i \in DOMAIN procs :
       /\ procs[i].pc = "findOtp"
       /\ procs' = [procs EXCEPT
                      ![i] = VerifyChecked(procs[i],
                                           findFirstOtp(procs[i].phone, procs[i].purpose))]
  /\ UNCHANGED <<otpCodes, dbUsers, kycSubmissions, users, clock>>
  /\ UNCHANGED stockVars

\* otpCode.update of the row found earlier.
VerifyConsume ==
  /\ \E i \in DOMAIN procs :
       /\ procs[i].pc = "consume"
       /\ otpCodes' = [otpCodes EXCEPT ![procs[i].otp].consumed = TRUE]
       /\ procs' = [procs EXCEPT ![i].pc = "findUser"]
  /\ UNCHANGED <<dbUsers, kycSubmissions, users, clock>>
  /\ UNCHANGED stockVars

\* user.findFirst; 0 for null.
findFirstUser(phone) ==
  IF \A u \in DOMAIN dbUsers : dbUsers[u].phone # phone THEN 0
  ELSE CHOOSE u \in DOMAIN dbUsers :
         /\ dbUsers[u].phone = phone
         /\ \A v \in DOMAIN dbUsers : dbUsers[v].phone = phone => u <= v

\* The request after user.findFirst has answered with row u; new Date() is
\* evaluated here, before the update is awaited.
VerifyUserChecked(p, u) ==
  IF u # 0 /\ dbUsers[u].phoneVerifiedAt = NullDate
    THEN [p EXCEPT !.pc = "setVerified", !.user = u, !.stamp = clock]
    ELSE [p EXCEPT !.pc = "done", !.response = OkTrue]

VerifyFindUser ==
  /\ \E i \in DOMAIN procs :
       /\ procs[i].pc = "findUser"
       /\ procs' = [procs EXCEPT ![i] = VerifyUserChecked(procs[i], findFirstUser(procs[i].phone))]
  /\ UNCHANGED <<otpCodes, dbUsers, kycSubmissions, users, clock>>
  /\ UNCHANGED stockVars

\* user.update, then the answer.
VerifySetVerified ==
  /\ \E i \in DOMAIN procs :
       /\ procs[i].pc = "setVerified"
       /\ dbUsers' = [dbUsers EXCEPT ![procs[i].user].phoneVerifiedAt = procs[i].stamp]
       /\ procs' = [procs EXCEPT ![i].pc = "done", ![i].response = OkTrue]
  /\ UNCHANGED <<otpCodes, kycSubmissions, users, clock>>
  /\ UNCHANGED stockVars

\* Time passes.
Tick ==
  /\ clock < MaxClock
  /\ clock' = clock + TickMinutes
  /\ UNCHANGED <<otpCodes, dbUsers, kycSubmissions, users, procs>>
  /\ UNCHANGED stockVars

\* The User table holds one row, whose phone is not verified yet; the other
\* phone belongs to no user.
InitOtp ==
  /\ StockAtRest
  /\ otpCodes = <<>>
  /\ dbUsers = <<[id |-> 1, phone |-> "9000000001", phoneVerifiedAt |-> NullDate]>>
  /\ kycSubmissions = <<>>
  /\ users = <<>>
  /\ procs = <<>>
  /\ clock = 0

NextOtp ==
  \/ OtpRequest
  \/ VerifyReceive
  \/ VerifyFindOtp
  \/ VerifyConsume
  \/ VerifyFindUser
  \/ VerifySetVerified
  \/ Tick

SpecOtp == InitOtp /\ [][NextOtp]_vars

(***************************************************************************)
(* The register route.  Its handler runs from the parsed body to the call  *)
(* of bcrypt.hash without a break, and from the answer of bcrypt.hash to   *)
(* the call that sends the welcome email.                                  *)
(***************************************************************************)
MaxRegisters == 2

Usernames == {<<"b", "o", "b">>, <<"B", "o", "b">>, <<"a", "m", "y">>, <<"a", "l">>}

RegisterPhones ==
  {<<"9", "0", "0", "0", "0", "0", "0", "0", "0", "1">>,
   <<"9", "0", "0", "0", "0", "0", "0", "0", "0", "2">>,
   <<"9", "0", "0">>}

\* Every email of the requests passes z.string().email().
Emails ==
  {<<"b", "@", "x", ".", "i", "o">>, <<"B", "@", "x", ".", "i", "o">>,
   <<"a", "@", "x", ".", "i", "o">>}

Passwords == {<<"p", "a", "s", "s", "w", "o", "r", "d">>, <<"p", "w">>}

RegisterBodies ==
  [username : Usernames, phone : RegisterPhones, email : Emails, password : Passwords]

\* registerSchema.safeParse(body).success
registerSchema(body) ==
  /\ Len(body.username) >= 3
  /\ Len(body.phone) = 10
  /\ \A i \in 1..Len(body.phone) : \E d \in 1..Len(Digits) : Digits[d] = body.phone[i]
  /\ Len(body.password) >= 8

\* The test of users.find.
SameAccount(user, body) ==
  \/ ToLowerCase(user.username) = ToLowerCase(body.username)
  \/ ToLowerCase(user.email) = ToLowerCase(body.email)
  \/ user.phone = body.phone

\* The first user users.find gives for this body; there is one.
existingUser(body) ==
  users[CHOOSE k \in DOMAIN users :
          /\ SameAccount(users[k], body)
          /\ \A m \in DOMAIN users : SameAccount(users[m], body) => k <= m]

conflictField(user, body) ==
  IF ToLowerCase(user.username) = ToLowerCase(body.username) THEN "username"
  ELSE IF ToLowerCase(user.email) = ToLowerCase(body.email) THEN "email"
  ELSE IF user.phone = body.phone THEN "phone number"
  ELSE "account"

\* The request after validation and users.find.
RegisterChecked(body) ==
  IF ~registerSchema(body)
    THEN [pc |-> "done", body |-> body,
          response |-> [status |-> 400, message |-> "Validation failed"]]
  ELSE IF \E k \in DOMAIN users : SameAccount(users[k], body)
    THEN [pc |-> "done", body |-> body,
          response |-> [status |-> 409, message |-> conflictField(existingUser(body), body)]]
  ELSE [pc |-> "hash", body |-> body, response |-> Pending]

RegisterCheck ==
  /\ Len(procs) < MaxRegisters
  /\ \E body \in RegisterBodies : procs' = Append(procs, RegisterChecked(body))
  /\ UNCHANGED <<otpCodes, dbUsers, kycSubmissions, users, clock>>
  /\ UNCHANGED stockVars

newUser(body) ==
  [id             |-> clock,
   username       |-> body.username,
   phone          |-> body.phone,
   email          |-> ToLowerCase(body.email),
   hashedPassword |-> BcryptHash(body.password)]

\* bcrypt.hash has answered: users.push(newUser).
RegisterPush ==
  /\ \E i \in DOMAIN procs :
       /\ procs[i].pc = "hash"
       /\ users' = Append(users, newUser(procs[i].body))
       /\ procs' = [procs EXCEPT ![i].pc = "email"]
  /\ UNCHANGED <<otpCodes, dbUsers, kycSubmissions, clock>>
  /\ UNCHANGED stockVars

\* The welcome email is sent or not; the answer is 201 either way.
RegisterRespond ==
  /\ \E i \in DOMAIN procs :
       /\ procs[i].pc = "email"
       /\ procs' = [procs EXCEPT
                      ![i].pc = "done",
                      ![i].response = [status |-> 201, message |-> "Account created successfully"]]
  /\ UNCHANGED <<otpCodes, dbUsers, kycSubmissions, users, clock>>
  /\ UNCHANGED stockVars

InitRegister == StockAtRest /\ AccountsIdle

NextRegister == RegisterCheck \/ RegisterPush \/ RegisterRespond \/ Tick

SpecRegister == InitRegister /\ [][NextRegister]_vars

(***************************************************************************)
(* The KYC routes: save, submit and upload, for the requests of one user   *)
(* and requests without a session.  The session and the user are read      *)
(* first and nothing shared is written before the kycSubmission call, so   *)
(* each handler starts at that call.                                       *)
(***************************************************************************)
MaxKycRequests == 4

\* The user of the session.
SessionUser == 1

Unauthorized == [status |-> 401, error |-> "Unauthorized"]

\* encrypt of a field of the draft.
encrypt(text) == [enc |-> text]

\* The bodies of save: two drafts that pass KycDraftSchema, and one without
\* the fullName field, which KycDraftSchema.parse throws on.
KycDrafts ==
  {[hasFullName |-> TRUE, fullName |-> "Asha Rao"],
   [hasFullName |-> TRUE, fullName |-> "Asha R. Rao"],
   [hasFullName |-> FALSE, fullName |-> ""]}

KycDraftSchema(d) == d.hasFullName

payload(d) == [fullNameEnc |-> encrypt(d.fullName)]

Drafts(userId) ==
  {k \in DOMAIN kycSubmissions :
     kycSubmissions[k].userId = userId /\ kycSubmissions[k].status = "DRAFT"}

KycRequest(op, pcNow, id, arr, stamp, answer) ==
  [op |-> op, pc |-> pcNow, kyc |-> id, arr |-> arr, stamp |-> stamp, response |-> answer]

\* The table after kycSubmission.upsert has created or updated the DRAFT row.
upsert(userId, data) ==
  IF Drafts(userId) = {}
    THEN Append(kycSubmissions,
                [id |-> Len(kycSubmissions) + 1, userId |-> userId, status |-> "DRAFT",
                 payload |-> data, docsJson |-> <<>>, submittedAt |-> NullDate])
    ELSE [k \in DOMAIN kycSubmissions |->
            IF k \in Drafts(userId) THEN [kycSubmissions[k] EXCEPT !.payload = data]
            ELSE kycSubmissions[k]]

\* POST /api/kyc/save.  The schema of the table is not among the sources: where
\* the user has a row and no DRAFT row, the create is done or is refused by a
\* constraint, and a refused create is answered 400.
KycSave ==
  /\ Len(procs) < MaxKycRequests
  /\ \E session \in BOOLEAN, d \in KycDrafts, refused \in BOOLEAN :
       IF ~session
         THEN /\ ~refused
              /\ procs' = Append(procs, KycRequest("save", "done", 0, <<>>, NullDate, Unauthorized))
              /\ UNCHANGED kycSubmissions
       ELSE IF ~KycDraftSchema(d)
         THEN /\ ~refused
              /\ procs' = Append(procs, KycRequest("save", "done", 0, <<>>, NullDate,
                                                  BadRequest("Bad Request")))
              /\ UNCHANGED kycSubmissions
       ELSE IF refused
         THEN /\ Drafts(SessionUser) = {}
              /\ kycSubmissions # <<>>
              /\ procs' = Append(procs, KycRequest("save", "done", 0, <<>>, NullDate,
                                                  BadRequest("Unique constraint failed")))
              /\ UNCHANGED kycSubmissions
       ELSE /\ kycSubmissions' = upsert(SessionUser, payload(d))
            /\ procs' = Append(procs, KycRequest("save", "done", 0, <<>>, NullDate, OkTrue))
  /\ UNCHANGED <<otpCodes, dbUsers, users, clock>>
  /\ UNCHANGED stockVars

\* POST /api/kyc/submit up to the answer of kycSubmission.findFirst; new Date()
\* is evaluated as the update is called.
SubmitFind ==
  /\ Len(procs) < MaxKycRequests
  /\ \E session \in BOOLEAN :
       IF ~session
         THEN procs' = Append(procs, KycRequest("submit", "done", 0, <<>>, NullDate, Unauthorized))
       ELSE IF Drafts(SessionUser) = {}
         THEN procs' = Append(procs, KycRequest("submit", "done", 0, <<>>, NullDate,
                                                BadRequest("No draft")))
       ELSE \E draft \in Drafts(SessionUser) :
              procs' = Append(procs, KycRequest("submit", "update", draft, <<>>, clock, Pending))
  /\ UNCHANGED <<otpCodes, dbUsers, kycSubmissions, users, clock>>
  /\ UNCHANGED stockVars

\* kycSubmission.update of submit, by id.
SubmitUpdate ==
  /\ \E i \in DOMAIN procs :
       /\ procs[i].op = "submit"
       /\ procs[i].pc = "update"
       /\ kycSubmissions' = [kycSubmissions EXCEPT ![procs[i].kyc].status = "SUBMITTED",
                                                   ![procs[i].kyc].submittedAt = procs[i].stamp]
       /\ procs' = [procs EXCEPT ![i].pc = "done", ![i].response = OkTrue]
  /\ UNCHANGED <<otpCodes, dbUsers, users, clock>>
  /\ UNCHANGED stockVars

\* The forms of upload: the kind field is absent or given, the file too.
UploadForms == [kind : {"", "AADHAAR"}, file : {"", "pan.pdf"}]

\* The entry upload pushes.
DocOf(form) == [kind |-> IF form.kind = "" THEN "PAN" ELSE form.kind, name |-> form.file]

\* POST /api/kyc/upload up to the answer of kycSubmission.findFirst: arr is
\* the docsJson that was read, with the new entry pushed.
UploadFind ==
  /\ Len(procs) < MaxKycRequests
  /\ \E session \in BOOLEAN, form \in UploadForms :
       IF ~session
         THEN procs' = Append(procs, KycRequest("upload", "done", 0, <<>>, NullDate, Unauthorized))
       ELSE IF form.file = ""
         THEN procs' = Append(procs, KycRequest("upload", "done", 0, <<>>, NullDate,
                                                BadRequest("File missing")))
       ELSE IF Drafts(SessionUser) = {}
         THEN procs' = Append(procs, KycRequest("upload", "done", 0, <<>>, NullDate,
                                                BadRequest("No KYC draft")))
       ELSE \E kyc \in Drafts(SessionUser) :
              procs' = Append(procs,
                              KycRequest("upload", "update", kyc,
                                         Append(kycSubmissions[kyc].docsJson, DocOf(form)),
                                         NullDate, Pending))
  /\ UNCHANGED <<otpCodes, dbUsers, kycSubmissions, users, clock>>
  /\ UNCHANGED stockVars

\* kycSubmission.update of upload, by id.
UploadUpdate ==
  /\ \E i \in DOMAIN procs :
       /\ procs[i].op = "upload"
       /\ procs[i].pc = "update"
       /\ kycSubmissions' = [kycSubmissions EXCEPT ![procs[i].kyc].docsJson = procs[i].arr]
       /\ procs' = [procs EXCEPT ![i].pc = "done", ![i].response = OkTrue]
  /\ UNCHANGED <<otpCodes, dbUsers, users, clock>>
  /\ UNCHANGED stockVars

InitKyc == StockAtRest /\ AccountsIdle

NextKyc == KycSave \/ SubmitFind \/ SubmitUpdate \/ UploadFind \/ UploadUpdate \/ Tick

SpecKyc == InitKyc /\ [][NextKyc]_vars

(***************************************************************************)
(* Properties of analyzeSentiment, checked under SpecSentiment.            *)
(***************************************************************************)
\* C1: for an empty news sequence analyzeSentiment returns a summary whose
\* avgSentiment, sentimentVolatility, positiveNewsRatio, negativeNewsRatio and
\* newsVolume are all exactly 0 (never NaN).
C1_EmptyNewsAllZero ==
  (call.op = "analyzeSentiment" /\ call.input = <<>>) =>
     /\ result.avgSentiment = Zero
     /\ result.sentimentVolatility = Zero
     /\ result.positiveNewsRatio = Zero
     /\ result.negativeNewsRatio = Zero
     /\ result.newsVolume = Zero

\* What the call on the empty sequence returns: the volatility is NaN, the
\* other four fields are 0.
C1_EmptyNewsVolatilityNaN ==
  /\ call.op = "analyzeSentiment"
  /\ call.input = <<>>
  /\ IsNaN(result.sentimentVolatility)
  /\ result.avgSentiment = Zero
  /\ result.positiveNewsRatio = Zero
  /\ result.negativeNewsRatio = Zero
  /\ result.newsVolume = Zero

(***************************************************************************)
(* Properties of the portfolio loop and of GET, checked under Spec.        *)
(***************************************************************************)
\* Whether the news fetch of iteration i failed (missing key, rejected fetch,
\* status that is not OK, body that is not JSON).
NewsFailed(i) == ~fetchGuardianNews(24, apiKey, world[i].news).ok

\* Whether predictStock threw in iteration i.
StockFailed(i) == NewsFailed(i) \/ world[i].tech.kind = "throw"

\* C2: in one predictPortfolio invocation the news source is fetched exactly
\* once, and every successful prediction carries the same SentimentSummary.
\* Stated for requests served with the API key set.
C2_NewsFetchedOnce ==
  (pc = "done" /\ response.status = 200 /\ apiKey) =>
     /\ Len(fetches) = 1
     /\ \A i, j \in 1..Len(predictions) :
          (~HasError(predictions[i]) /\ ~HasError(predictions[j])) =>
             predictions[i].sentimentAnalysis = predictions[j].sentimentAnalysis

\* A request for three symbols that fetched the news three times and returned
\* two predictions with different sentiment summaries.
C2_FetchedPerSymbol ==
  /\ pc = "done"
  /\ response.status = 200
  /\ Len(symbols) = 3
  /\ Len(fetches) = 3
  /\ ~HasError(predictions[1])
  /\ ~HasError(predictions[2])
  /\ predictions[1].sentimentAnalysis # predictions[2].sentimentAnalysis

\* C3: when the news source is unavailable the failure is recovered as an empty
\* SentimentSummary: no symbol's entry is an error marker because of the news
\* failure.
C3_NewsFailureRecovered ==
  \A i \in 1..Len(predictions) : NewsFailed(i) => ~HasError(predictions[i])

\* An iteration whose news fetch failed and whose entry is the error marker
\* of that failure.
C3_NewsFailureSurfaced ==
  /\ Len(predictions) >= 1
  /\ NewsFailed(1)
  /\ HasError(predictions[1])
  /\ predictions[1].error = <<"Failed to predict: ", "fetch failed">>

\* C4: a failure while predicting one symbol never aborts predictPortfolio: the
\* failing symbol gets an error marker {symbol, error}, the loop goes on with the
\* next symbol, and the run ends with an entry for every symbol and no failure
\* response.
C4_FailureNeverAborts ==
  /\ response.status # 500
  /\ Len(world) = Len(predictions)
  /\ pc = "portfolio" => idx = Len(predictions) + 1
  /\ pc = "done" => Len(predictions) = Len(symbols)
  /\ \A i \in 1..Len(predictions) :
       StockFailed(i) =>
          /\ DOMAIN predictions[i] = {"symbol", "error"}
          /\ predictions[i].symbol = symbols[i]

\* A finished run in which the first symbol failed and a later one was predicted.
C4_FailureThenSuccess ==
  /\ pc = "done"
  /\ Len(predictions) = 3
  /\ StockFailed(1)
  /\ HasError(predictions[1])
  /\ ~HasError(predictions[3])

\* C5: the returned predictions have exactly one entry per requested symbol, in
\* the order of the symbols, summary.totalSymbols is the number of requested
\* symbols, and there is no response before every symbol has its entry.
C5_OneEntryPerSymbol ==
  /\ response.status = 200 =>
       /\ Len(response.predictions) = Len(symbols)
       /\ \A i \in 1..Len(symbols) : response.predictions[i].symbol = symbols[i]
       /\ response.summary.totalSymbols = Len(symbols)
       /\ response.predictions = predictions
  /\ response # NoResponse => pc = "done"
  /\ pc = "portfolio" => response = NoResponse

\* A response for three symbols, the second entry an error marker between two
\* predictions.
C5_ThreeEntriesInOrder ==
  /\ response.status = 200
  /\ Len(symbols) = 3
  /\ ~HasError(response.predictions[1])
  /\ HasError(response.predictions[2])
  /\ ~HasError(response.predictions[3])

\* The entries of a sequence that are no error markers, and their confidences.
Successes(entries) == {i \in 1..Len(entries) : ~HasError(entries[i])}

WithAction(entries, action) ==
  {i \in Successes(entries) : entries[i].prediction = action}

NotError(p) == ~HasError(p)

ConfidencesOf(entries) == [i \in 1..Len(entries) |-> entries[i].confidence]

SuccessConfidences(entries) == ConfidencesOf(SelectSeq(entries, NotError))

\* The summary's counts and mean for the entries of a response.
SummaryCounts(entries, summary) ==
  /\ summary.buySignals = Cardinality(WithAction(entries, "BUY"))
  /\ summary.sellSignals = Cardinality(WithAction(entries, "SELL"))
  /\ summary.holdSignals = Cardinality(WithAction(entries, "HOLD"))
  /\ summary.buySignals + summary.sellSignals + summary.holdSignals
       + (Len(entries) - Cardinality(Successes(entries))) = summary.totalSymbols
  /\ summary.avgConfidence =
       IF Successes(entries) = {} THEN Zero ELSE MeanOf(SuccessConfidences(entries))

\* C6: buySignals, sellSignals and holdSignals count the non-error entries whose
\* action is BUY, SELL and HOLD (their sum plus the number of error markers is
\* totalSymbols), and avgConfidence is the mean of the confidences of the
\* non-error entries, or 0 when no symbol succeeded.
C6_SummaryCounts ==
  response.status = 200 => SummaryCounts(response.predictions, response.summary)

\* A response with a BUY, a HOLD and an error marker.
C6_MixedSummary ==
  /\ response.status = 200
  /\ response.summary.buySignals = 1
  /\ response.summary.holdSignals = 1
  /\ response.summary.totalSymbols = 3
  /\ Cardinality(Successes(response.predictions)) = 2

\* C18: the lookback window supplied by the caller (the hours parameter,
\* default 24) is the window used for the news fetch of that request: requests
\* that differ only in hours fetch news for their own window.
C18_WindowIsHours ==
  FGt(hours, Zero) => \A i \in 1..Len(fetches) : FromInt(fetches[i]) = hours

\* A request with hours=48 whose news fetch was made for 24 hours.
C18_FetchedFor24 ==
  /\ req.hours = Param(<<"4", "8">>)
  /\ hours = FromInt(48)
  /\ fetches # <<>>
  /\ \A i \in 1..Len(fetches) : fetches[i] = 24

\* A request without symbols, with an empty symbols parameter, or with a
\* lookback window that is not positive.
Malformed ==
  \/ ~req.symbols.present
  \/ req.symbols.value = <<>>
  \/ ~FGt(hours, Zero)

\* C19: a request with an empty or missing symbol list, or with a non-positive
\* lookback window, is rejected as a request-validation failure before any news
\* or technical fetch is made; no symbol is processed for such a request.
C19_MalformedRejected ==
  (pc # "idle" /\ Malformed) =>
     /\ fetches = <<>>
     /\ world = <<>>
     /\ predictions = <<>>
     /\ response.status # 200

\* A request without a symbols parameter and with hours=-5, answered with
\* status 200 and three entries after three news fetches.
C19_MalformedServed ==
  /\ pc = "done"
  /\ ~req.symbols.present
  /\ req.hours = Param(<<"-", "5">>)
  /\ hours = FromInt(-5)
  /\ Len(fetches) = 3
  /\ response.status = 200
  /\ Len(response.predictions) = 3

\* A text with its letters in upper case.
UpperCaseOf(text) ==
  [i \in 1..Len(text) |->
     IF \E j \in 1..Len(LowerLetters) : LowerLetters[j] = text[i]
     THEN UpperLetters[CHOOSE j \in 1..Len(LowerLetters) : LowerLetters[j] = text[i]]
     ELSE text[i]]

\* C20: requested ticker symbols are upper-cased before use: the symbol field of
\* every output entry is the upper-case form of the requested symbol.
C20_SymbolsUpperCased ==
  \A i \in 1..Len(predictions) : predictions[i].symbol = UpperCaseOf(symbols[i])

\* A request for symbols=aapl answered with an entry whose symbol is "aapl".
C20_LowerCaseKept ==
  /\ pc = "done"
  /\ req.symbols = Param(<<"a", "a", "p", "l">>)
  /\ response.status = 200
  /\ response.predictions[1].symbol = <<"a", "a", "p", "l">>
  /\ response.predictions[1].symbol # UpperCaseOf(<<"a", "a", "p", "l">>)

\* C21: if getTechnicalIndicators yields null for a symbol, the prediction for
\* that symbol fails: its portfolio entry is an error marker {symbol, error}
\* naming the failure, never a prediction built from default or missing
\* technical values.
C21_NoSnapshotNoPrediction ==
  \A i \in 1..Len(predictions) :
     (~NewsFailed(i) /\ getTechnicalIndicators(symbols[i], world[i].tech) = Null) =>
        predictions[i]
          = [symbol |-> symbols[i],
             error  |-> <<"Failed to predict: ", "Could not fetch technical data for ",
                          symbols[i]>>]

\* A response whose first entry is the error marker of a missing snapshot and
\* whose second entry is a prediction.
C21_MarkerForMissingSnapshot ==
  /\ response.status = 200
  /\ Len(world) = 3
  /\ ~NewsFailed(1)
  /\ world[1].tech.kind = "throw"
  /\ HasError(response.predictions[1])
  /\ response.predictions[1].error[2] = "Could not fetch technical data for "
  /\ ~HasError(response.predictions[2])

(***************************************************************************)
(* Properties of the service instance, checked under SpecService.          *)
(***************************************************************************)
\* C22: the shared StockPredictionService instance carries no state that
\* changes between invocations: getInstance always returns the same instance,
\* and no sequence of GET and POST requests (predict, retrain or invalid)
\* changes any of its fields: modelTrained stays false.
C22_InstanceNeverChanges ==
  /\ [](instance.serial <= 1 /\ instance.modelTrained = FALSE)
  /\ [][instance # NoInstance => instance' = instance]_vars

\* A retrain answered after a GET for symbols=aapl: the instance is still the
\* first one, untrained.
C22_RetrainAfterGet ==
  /\ pc = "done"
  /\ req.symbols = Param(<<"a", "a", "p", "l">>)
  /\ response = [status |-> 200, message |-> "Model retraining initiated"]
  /\ instance = [serial |-> 1, modelTrained |-> FALSE]

(***************************************************************************)
(* Properties of makeSimplePrediction, checked under SpecFuse.  The score  *)
(* of the claims is counted in halves, in integers, from the grid values   *)
(* (tenths for avgSentiment, macd and volumeRatio).                        *)
(***************************************************************************)
SignOf(n) == IF n > 0 THEN 1 ELSE IF n < 0 THEN -1 ELSE 0

AbsOf(n) == IF n < 0 THEN -n ELSE n

\* Twice the score before the volume step.
HalvesBeforeVolume(g) ==
    (IF g.avgSentiment10 > 2 THEN 4 ELSE IF g.avgSentiment10 < -2 THEN -4 ELSE 0)
  + (IF g.rsi < 30 THEN 4 ELSE IF g.rsi > 70 THEN -4 ELSE 0)
  + (IF g.macd10 > 0 THEN 2 ELSE -2)
  + (IF g.priceChange1d > 2 THEN 2 ELSE IF g.priceChange1d < -2 THEN -2 ELSE 0)

\* Twice the score after it, h being twice the score before.
HalvesWithVolume(g, h) == IF g.volumeRatio10 > 15 THEN h + SignOf(h) ELSE h

ScoreHalves(g) == HalvesWithVolume(g, HalvesBeforeVolume(g))

ActionFor(h) == IF h >= 6 THEN "BUY" ELSE IF h <= -6 THEN "SELL" ELSE "HOLD"

\* C7: makeSimplePrediction returns BUY exactly when the accumulated score is
\* >= 3, SELL exactly when it is <= -3 and HOLD otherwise, the score being +2/-2
\* for avgSentiment > 0.2 / < -0.2, +2/-2 for rsi < 30 / > 70, +1 for macd > 0
\* else -1, +1/-1 for priceChange1d > 2 / < -2, then plus sign(score) * 0.5 when
\* volumeRatio > 1.5.
C7_ActionByScore ==
  call.op = "makeSimplePrediction" =>
     /\ FMul(result.beforeVolume.score, FromInt(2))
          = FromInt(HalvesBeforeVolume(call.input))
     /\ FMul(result.afterVolume.score, FromInt(2)) = FromInt(ScoreHalves(call.input))
     /\ result.prediction.action = ActionFor(ScoreHalves(call.input))

\* A call whose score is exactly 3 and whose action is BUY, and the volume step
\* not taken at volumeRatio 1.5.
C7_BuyAtThree ==
  /\ call.op = "makeSimplePrediction"
  /\ call.input.volumeRatio10 = 15
  /\ result.afterVolume.score = FromInt(3)
  /\ result.prediction.action = "BUY"

\* The confidence of the claims in thousandths, exactly, for twice the score h;
\* and a number of thousandths rounded to hundredths, a half going up.
ConfidenceThousandths(h) ==
  IF h >= 6 THEN MinOf(900, 600 + (h - 6) * 50)
  ELSE IF h <= -6 THEN MinOf(900, 600 + AbsOf(h + 6) * 50)
  ELSE 500 + AbsOf(h) * 25

RoundedHundredths(t) == (t + 5) \div 10

\* C8: the confidence returned equals, rounded to 2 decimal places,
\* min(0.9, 0.6 + (score - 3) * 0.1) for BUY, min(0.9, 0.6 + |score + 3| * 0.1)
\* for SELL and 0.5 + |score| * 0.05 for HOLD; it lies in [0, 1] and never
\* exceeds 0.9.
C8_ConfidenceRounded ==
  call.op = "makeSimplePrediction" =>
     /\ result.prediction.confidence
          = Dec(RoundedHundredths(ConfidenceThousandths(ScoreHalves(call.input))), 100)
     /\ FGe(result.prediction.confidence, Zero)
     /\ FLe(result.prediction.confidence, FromInt(1))
     /\ FLe(result.prediction.confidence, Lit0_9)

\* A call whose score is 1.5: 0.5 + 1.5 * 0.05 is 0.575, the confidence
\* returned is 0.57.
C8_ScoreOneAndAHalf ==
  /\ call.op = "makeSimplePrediction"
  /\ result.afterVolume.score = Dec(15, 10)
  /\ result.prediction.action = "HOLD"
  /\ result.prediction.confidence = Dec(57, 100)

\* C9: with avgSentiment > 0.2, rsi < 30, macd > 0, priceChange1d > 2 and
\* volumeRatio > 1.5 the score is 6 before the volume step and 6.5 after it, the
\* action is BUY and the confidence is exactly 0.9.
C9_AllBullish ==
  (/\ call.op = "makeSimplePrediction"
   /\ FGt(SentimentIn(call.input).avgSentiment, Lit0_2)
   /\ FLt(TechnicalIn(call.input).rsi, FromInt(30))
   /\ FGt(TechnicalIn(call.input).macd, Zero)
   /\ FGt(TechnicalIn(call.input).priceChange1d, FromInt(2))
   /\ FGt(TechnicalIn(call.input).volumeRatio, Lit1_5)) =>
     /\ result.beforeVolume.score = FromInt(6)
     /\ result.afterVolume.score = Dec(65, 10)
     /\ result.prediction.action = "BUY"
     /\ result.prediction.confidence = Lit0_9

\* A call with every factor bullish, the volume ratio just above 1.5.
C9_AllBullishCall ==
  /\ call.op = "makeSimplePrediction"
  /\ call.input.avgSentiment10 = 3
  /\ call.input.rsi = 25
  /\ call.input.macd10 = 5
  /\ call.input.priceChange1d = 3
  /\ call.input.volumeRatio10 = 16
  /\ result.afterVolume.score = Dec(65, 10)
  /\ result.prediction.confidence = Lit0_9

\* C10: rsi exactly 30 and rsi exactly 70 trigger neither the oversold nor the
\* overbought branch: the RSI step leaves the score unchanged and appends no
\* reason.
C10_RsiBoundaries ==
  (/\ call.op = "makeSimplePrediction"
   /\ \/ TechnicalIn(call.input).rsi = FromInt(30)
      \/ TechnicalIn(call.input).rsi = FromInt(70)) =>
     /\ result.afterRsi.score = result.afterSentiment.score
     /\ result.afterRsi.reasoning = result.afterSentiment.reasoning

\* A call with rsi exactly 70 after a sentiment reason: the reasons are still
\* that one reason.
C10_RsiSeventy ==
  /\ call.op = "makeSimplePrediction"
  /\ call.input.rsi = 70
  /\ result.afterSentiment.reasoning = <<"Positive news sentiment">>
  /\ result.afterRsi.reasoning = <<"Positive news sentiment">>
  /\ result.afterRsi.score = FromInt(2)

\* C11: the MACD step has no neutral case: macd exactly 0, like any macd <= 0,
\* subtracts 1 from the score and appends "MACD shows bearish momentum"; only
\* macd > 0 adds 1 and appends "MACD shows bullish momentum".
C11_MacdNoNeutral ==
  call.op = "makeSimplePrediction" =>
     IF call.input.macd10 > 0
     THEN /\ result.afterMacd.score = FAdd(result.afterRsi.score, FromInt(1))
          /\ result.afterMacd.reasoning
               = Append(result.afterRsi.reasoning, "MACD shows bullish momentum")
     ELSE /\ result.afterMacd.score = FSub(result.afterRsi.score, FromInt(1))
          /\ result.afterMacd.reasoning
               = Append(result.afterRsi.reasoning, "MACD shows bearish momentum")

\* A call with macd exactly 0 and nothing before the MACD step: the score is -1
\* and the only reason is the bearish one.
C11_MacdZeroBearish ==
  /\ call.op = "makeSimplePrediction"
  /\ call.input.macd10 = 0
  /\ TechnicalIn(call.input).macd = Zero
  /\ result.afterRsi.score = Zero
  /\ result.afterMacd.score = FromInt(-1)
  /\ result.afterMacd.reasoning = <<"MACD shows bearish momentum">>

\* C12: when volumeRatio > 1.5 the score moves by 0.5 away from zero (+0.5 if
\* positive, -0.5 if negative), is left unchanged when it is exactly 0, and the
\* reason "High volume confirms trend" is appended in all three cases; when
\* volumeRatio <= 1.5 neither the score nor the reasons change in this step.
C12_VolumeStep ==
  call.op = "makeSimplePrediction" =>
     IF call.input.volumeRatio10 > 15
     THEN /\ result.afterVolume.reasoning
               = Append(result.beforeVolume.reasoning, "High volume confirms trend")
          /\ FGt(result.beforeVolume.score, Zero) =>
               result.afterVolume.score = FAdd(result.beforeVolume.score, Lit0_5)
          /\ FLt(result.beforeVolume.score, Zero) =>
               result.afterVolume.score = FSub(result.beforeVolume.score, Lit0_5)
          /\ result.beforeVolume.score = Zero => result.afterVolume.score = Zero
     ELSE result.afterVolume = result.beforeVolume

\* A call with volumeRatio 1.6 whose score is 0 before the volume step: the
\* score stays 0 and the reason is appended as the fifth.
C12_VolumeAtZero ==
  /\ call.op = "makeSimplePrediction"
  /\ call.input.volumeRatio10 = 16
  /\ result.beforeVolume.score = Zero
  /\ result.afterVolume.score = Zero
  /\ Len(result.beforeVolume.reasoning) = 4
  /\ result.afterVolume.reasoning[5] = "High volume confirms trend"

\* The reasons of a call in the order of the steps: sentiment, RSI, MACD, price
\* momentum, volume.
ReasonsInOrder(g) ==
  (IF g.avgSentiment10 > 2 THEN <<"Positive news sentiment">>
   ELSE IF g.avgSentiment10 < -2 THEN <<"Negative news sentiment">> ELSE <<>>)
  \o (IF g.rsi < 30 THEN <<"RSI indicates oversold condition">>
      ELSE IF g.rsi > 70 THEN <<"RSI indicates overbought condition">> ELSE <<>>)
  \o (IF g.macd10 > 0 THEN <<"MACD shows bullish momentum">>
      ELSE <<"MACD shows bearish momentum">>)
  \o (IF g.priceChange1d > 2 THEN <<"Strong recent price momentum">>
      ELSE IF g.priceChange1d < -2 THEN <<"Weak recent price momentum">> ELSE <<>>)
  \o (IF g.volumeRatio10 > 15 THEN <<"High volume confirms trend">> ELSE <<>>)

\* C13: the reasoning returned has at most 3 entries and is exactly the first 3
\* (or fewer) reasons in the order they were appended: sentiment, RSI, MACD,
\* price momentum, volume; it is never re-sorted.
C13_FirstThreeReasons ==
  call.op = "makeSimplePrediction" =>
     /\ Len(result.prediction.reasoning) <= 3
     /\ Len(result.prediction.reasoning) = MinOf(3, Len(ReasonsInOrder(call.input)))
     /\ \A i \in 1..Len(result.prediction.reasoning) :
          result.prediction.reasoning[i] = ReasonsInOrder(call.input)[i]

\* A call that appended five reasons and returned the first three of them.
C13_FiveReasonsCut ==
  /\ call.op = "makeSimplePrediction"
  /\ Len(result.afterVolume.reasoning) = 5
  /\ result.prediction.reasoning
       = <<"Negative news sentiment", "RSI indicates oversold condition",
           "MACD shows bearish momentum">>

\* C23: the volume step never changes the action: the action with
\* volumeRatio > 1.5 equals the action of the same input with volumeRatio <= 1.5,
\* only confidence and reasoning can differ; the score before the volume step
\* is an integer.
C23_VolumeKeepsAction ==
  call.op = "makeSimplePrediction" =>
     /\ result.prediction.action = result.calm.action
     /\ call.input.volumeRatio10 <= 15 => result.prediction = result.calm
     /\ \E k \in -6..6 : result.beforeVolume.score = FromInt(k)

\* A call with volumeRatio 2 and score 2 before the volume step: HOLD with and
\* without the volume step, with another confidence and one more reason.
C23_HoldEitherWay ==
  /\ call.op = "makeSimplePrediction"
  /\ call.input.volumeRatio10 = 20
  /\ result.beforeVolume.score = FromInt(2)
  /\ result.afterVolume.score = Dec(25, 10)
  /\ result.prediction.action = "HOLD"
  /\ result.calm.action = "HOLD"
  /\ result.prediction.confidence # result.calm.confidence

MacdReasons == {"MACD shows bullish momentum", "MACD shows bearish momentum"}

\* C24: the reasoning returned is non-empty and contains exactly one of the two
\* MACD reasons: at most two reasons precede it, so the cut to 3 keeps it.
C24_MacdReasonKept ==
  call.op = "makeSimplePrediction" =>
     /\ result.prediction.reasoning # <<>>
     /\ Cardinality({i \in 1..Len(result.prediction.reasoning) :
                       result.prediction.reasoning[i] \in MacdReasons}) = 1

\* A call that appended five reasons: the MACD reason is the third and last
\* one returned.
C24_MacdReasonThird ==
  /\ call.op = "makeSimplePrediction"
  /\ Len(result.afterVolume.reasoning) = 5
  /\ Len(result.prediction.reasoning) = 3
  /\ result.prediction.reasoning[3] = "MACD shows bullish momentum"

FlippedAction(action) ==
  IF action = "BUY" THEN "SELL" ELSE IF action = "SELL" THEN "BUY" ELSE "HOLD"

\* C25: for inputs with macd # 0, replacing (avgSentiment, rsi, macd,
\* priceChange1d) by (-avgSentiment, 100 - rsi, -macd, -priceChange1d) with the
\* same volumeRatio negates the score, turns BUY into SELL and SELL into BUY,
\* keeps HOLD, and yields the same confidence.
C25_MirrorSymmetry ==
  (call.op = "makeSimplePrediction" /\ call.input.macd10 # 0) =>
     /\ result.mirrorScore = FNeg(result.afterVolume.score)
     /\ result.mirror.action = FlippedAction(result.prediction.action)
     /\ result.mirror.confidence = result.prediction.confidence

\* A call answered SELL with score -4.5 whose mirrored input is answered BUY
\* with score 4.5 and the same confidence 0.75.
C25_SellMirrorsBuy ==
  /\ call.op = "makeSimplePrediction"
  /\ call.input.macd10 # 0
  /\ result.afterVolume.score = Dec(-45, 10)
  /\ result.prediction.action = "SELL"
  /\ result.mirrorScore = Dec(45, 10)
  /\ result.mirror.action = "BUY"
  /\ result.mirror.confidence = Dec(75, 100)

(***************************************************************************)
(* Further properties of analyzeSentiment, checked under SpecSentiment.    *)
(***************************************************************************)
\* C15: for every news sequence each per-item sentiment score lies in [-1, 1],
\* and so does the avgSentiment returned; newsVolume equals the number of input
\* items.
C15_SentimentBounded ==
  call.op = "analyzeSentiment" =>
     /\ \A i \in 1..Len(call.input) :
          /\ FGe(Sentiments(call.input)[i], FromInt(-1))
          /\ FLe(Sentiments(call.input)[i], FromInt(1))
     /\ FGe(result.avgSentiment, FromInt(-1))
     /\ FLe(result.avgSentiment, FromInt(1))
     /\ result.newsVolume = FromInt(Len(call.input))

\* A call on three items with more than five positive words each: every score
\* is cut to 1 and the average is exactly 1.
C15_ClampedToOne ==
  /\ call.op = "analyzeSentiment"
  /\ Len(call.input) = 3
  /\ \A i \in 1..3 : WordScore(ItemText(call.input[i])) > 5
  /\ result.avgSentiment = FromInt(1)
  /\ result.newsVolume = FromInt(3)

\* The listed words as sets, and whether a word occurs somewhere in a text.
PositiveList == {positiveWords[i] : i \in 1..Len(positiveWords)}

NegativeList == {negativeWords[i] : i \in 1..Len(negativeWords)}

OccursIn(text, word) ==
  \E i \in 1..Len(text) :
     \A k \in 1..Len(word) : i + k - 1 <= Len(text) /\ text[i + k - 1] = word[k]

\* The raw score of a lower-cased text: the listed positive words that occur in
\* it minus the listed negative words that occur in it, each counted once.
RawScore(text) ==
  Cardinality({w \in PositiveList : OccursIn(text, w)})
  - Cardinality({w \in NegativeList : OccursIn(text, w)})

\* The raw score divided by 5, clamped to [-1, 1].
ClampedFifth(raw) ==
  IF raw >= 5 THEN FromInt(1) ELSE IF raw <= -5 THEN FromInt(-1) ELSE Dec(raw, 5)

\* The item scores of a news sequence, the text of an item being its title, a
\* blank and its description, lower-cased.
ScoresSpaced(newsItems) ==
  [i \in 1..Len(newsItems) |->
     ClampedFifth(RawScore(ToLowerCase(newsItems[i].title \o <<" ">>
                                         \o newsItems[i].description)))]

\* The same, the text being the title directly followed by the description.
ScoresJoined(newsItems) ==
  [i \in 1..Len(newsItems) |->
     ClampedFifth(RawScore(ToLowerCase(newsItems[i].title \o newsItems[i].description)))]

\* C16 as stated: the raw score of an item is the number of the 10 positive
\* words that occur as a substring of the lower-cased title+description minus
\* the number of the 10 negative words that occur; the item score is the raw
\* score divided by 5, clamped to [-1, 1].  Stated on the average returned,
\* which for a single item is the score of that item.
C16_ScoreOfJoinedText ==
  (call.op = "analyzeSentiment" /\ call.input # <<>>) =>
     result.avgSentiment = OrZero(MeanOf(ScoresJoined(call.input)))

\* C16 amended: the same, the words being looked for in the lower-cased text of
\* title, one blank, description: each listed word counts at most once per
\* item, a listed word inside a longer word counts, and case is ignored.
C16_ScoreOfSpacedText ==
  (call.op = "analyzeSentiment" /\ call.input # <<>>) =>
     result.avgSentiment = OrZero(MeanOf(ScoresSpaced(call.input)))

\* A call on the one item "Supply picks up": "up" occurs twice, once inside
\* "supply", the raw score is 1 and the score 0.2.
C16_UpCountedOnce ==
  /\ call.op = "analyzeSentiment"
  /\ Len(call.input) = 1
  /\ Occurrences(ItemText(call.input[1]), <<"u", "p">>) = 2
  /\ result.avgSentiment = Dec(1, 5)

\* The items of a news sequence whose score is above 0.1, and below -0.1.
AboveTenth(newsItems) ==
  {i \in 1..Len(newsItems) : FGt(ScoresSpaced(newsItems)[i], Dec(1, 10))}

BelowMinusTenth(newsItems) ==
  {i \in 1..Len(newsItems) : FLt(ScoresSpaced(newsItems)[i], Dec(-1, 10))}

\* C17: for every non-empty news sequence positiveNewsRatio is the fraction of
\* items whose score is > 0.1 and negativeNewsRatio the fraction whose score is
\* < -0.1; both lie in [0, 1], their sum is at most 1, and an item with raw
\* score 0 counts in neither.
C17_NewsRatios ==
  (call.op = "analyzeSentiment" /\ call.input # <<>>) =>
     /\ result.positiveNewsRatio
          = Dec(Cardinality(AboveTenth(call.input)), Len(call.input))
     /\ result.negativeNewsRatio
          = Dec(Cardinality(BelowMinusTenth(call.input)), Len(call.input))
     /\ FGe(result.positiveNewsRatio, Zero) /\ FLe(result.positiveNewsRatio, FromInt(1))
     /\ FGe(result.negativeNewsRatio, Zero) /\ FLe(result.negativeNewsRatio, FromInt(1))
     /\ FLe(FAdd(result.positiveNewsRatio, result.negativeNewsRatio), FromInt(1))
     /\ (\A i \in 1..Len(call.input) : RawScore(ItemText(call.input[i])) = 0) =>
          result.positiveNewsRatio = Zero /\ result.negativeNewsRatio = Zero

\* A call on three items, the first positive, the second negative and the third
\* with raw score 0: both ratios are one third.
C17_OneThirdEach ==
  /\ call.op = "analyzeSentiment"
  /\ Len(call.input) = 3
  /\ RawScore(ItemText(call.input[1])) > 0
  /\ RawScore(ItemText(call.input[2])) < 0
  /\ RawScore(ItemText(call.input[3])) = 0
  /\ result.positiveNewsRatio = Dec(1, 3)
  /\ result.negativeNewsRatio = Dec(1, 3)

C26_OtpSingleUse ==
  \A i, j \in DOMAIN procs :
     (procs[i].response = OkTrue /\ procs[j].response = OkTrue /\ procs[i].otp = procs[j].otp)
        => i = j

\* One row, requested once, has let two verify requests through.
C26_OneOtpTwoLogins ==
  /\ Len(otpCodes) = 1
  /\ Len(procs) = 2
  /\ \A i \in DOMAIN procs : procs[i].response = OkTrue /\ procs[i].otp = 1

\* C27: a verify request that ends in an error (no unconsumed OTP, newest
\* unconsumed OTP expired, code not matching) has changed no OtpCode row and no
\* User row; phoneVerifiedAt is set only by a verify request that succeeds, only
\* for a user with the phone of that request, and is never overwritten once set.
C27_VerifyFrame ==
  /\ [](\A i \in DOMAIN procs :
          procs[i].response.status = 400 => procs[i].otp = 0 /\ procs[i].stamp = NullDate)
  /\ [][/\ (\E i \in DOMAIN procs :
               procs[i].response = Pending /\ procs'[i].response.status = 400)
             => (otpCodes' = otpCodes /\ dbUsers' = dbUsers)
        /\ \A u \in DOMAIN dbUsers :
             dbUsers'[u] # dbUsers[u] =>
               /\ dbUsers[u].phoneVerifiedAt = NullDate
               /\ dbUsers'[u] = [dbUsers[u] EXCEPT !.phoneVerifiedAt = dbUsers'[u].phoneVerifiedAt]
               /\ \E i \in DOMAIN procs :
                    /\ procs[i].response = Pending
                    /\ procs'[i].response = OkTrue
                    /\ procs[i].phone = dbUsers[u].phone]_vars

\* Two verify requests have each written their own time to the same user.
C27_VerifiedTwice ==
  \E i, j \in DOMAIN procs :
     /\ procs[i].response = OkTrue
     /\ procs[j].response = OkTrue
     /\ procs[i].user = procs[j].user
     /\ procs[i].stamp # NullDate
     /\ procs[j].stamp # NullDate
     /\ procs[i].stamp < procs[j].stamp
     /\ dbUsers[procs[i].user].phoneVerifiedAt = procs[j].stamp

(***************************************************************************)
(* Properties of the register route, checked under SpecRegister.           *)
(***************************************************************************)
\* C28: after any interleaving of register requests no two stored users share
\* a username or an email (compared without case) or a phone number; a request
\* that collides with a stored user is answered 409 and stores nothing.
C28_UsersUnique ==
  /\ [](\A k, m \in DOMAIN users : SameAccount(users[k], users[m]) => k = m)
  /\ [][\A i \in DOMAIN procs :
           (\E k \in DOMAIN users : SameAccount(users[k], procs[i].body))
              => (users' = users \/ procs'[i].pc = procs[i].pc)]_vars

\* Two users stored under the same username.
C28_TwoBobs ==
  /\ Len(users) = 2
  /\ ToLowerCase(users[1].username) = ToLowerCase(users[2].username)
  /\ \A i \in DOMAIN procs : procs[i].response.status = 201

(***************************************************************************)
(* Properties of the KYC routes, checked under SpecKyc.                    *)
(***************************************************************************)
\* C29: a KYC submission whose status is SUBMITTED is never modified by save,
\* upload or submit, under any interleaving of a user's requests: they change
\* only a submission that is DRAFT at the moment of the write, and a submit
\* with no DRAFT present is answered 400 and changes nothing.
C29_SubmittedIsFrozen ==
  [][/\ \A k \in DOMAIN kycSubmissions :
          kycSubmissions[k].status = "SUBMITTED" => kycSubmissions'[k] = kycSubmissions[k]
     /\ (Len(procs') > Len(procs) /\ procs'[Len(procs')].response = BadRequest("No draft"))
          => kycSubmissions' = kycSubmissions]_vars

\* Two submit requests answered ok:true for one submission: the update of the
\* second was made on a submission that was SUBMITTED already.
C29_SubmittedTwice ==
  \E i, j \in DOMAIN procs :
     /\ i # j
     /\ procs[i].op = "submit" /\ procs[i].response = OkTrue
     /\ procs[j].op = "submit" /\ procs[j].response = OkTrue
     /\ procs[i].kyc = procs[j].kyc
     /\ kycSubmissions[procs[i].kyc].status = "SUBMITTED"

\* Number of upload requests answered ok:true for submission k.
UploadsDone(k) ==
  Cardinality({i \in DOMAIN procs :
                 procs[i].op = "upload" /\ procs[i].response = OkTrue /\ procs[i].kyc = k})

\* C30: no uploaded document is lost: every upload answered ok:true has added
\* one entry to docsJson of the draft, so after k such uploads to a draft, in
\* any interleaving, docsJson holds k entries more than before (a draft is
\* created with none).
C30_NoUploadLost ==
  \A k \in DOMAIN kycSubmissions : Len(kycSubmissions[k].docsJson) = UploadsDone(k)

\* Two uploads answered ok:true, and one document in the draft.
C30_TwoUploadsOneDoc ==
  \E k \in DOMAIN kycSubmissions :
     /\ UploadsDone(k) = 2
     /\ Len(kycSubmissions[k].docsJson) = 1

====
